---- MODULE Spec2Model ----
(***************************************************************************)
(* Persistent player-state stores of the tapper game:                      *)
(*   - Database          (src/database.py, tables players, game_sessions,  *)
(*                        tap_history; file game.db)                       *)
(*   - WebAppDatabase    (src/database.py, tables webapp_users,            *)
(*                        achievements and purchases; file webapp.db)      *)
(*   - handle_webapp_data (src/webapp_bot.py), the gameEnd and             *)
(*                        updateProfile read-modify-writes over            *)
(*                        WebAppDatabase                                   *)
(* and the bot that keeps its games in memory:                             *)
(*   - tapper_bot.py     (src/tapper_bot.py, dicts user_scores,            *)
(*                        active_games and leaderboard, and the job queue  *)
(*                        running game_timer)                              *)
(*                                                                         *)
(* A table is a function from its primary key to its row.  Every store     *)
(* hands each thread its own sqlite3 connection (threading.local), so the  *)
(* callers are modelled as threads whose operations interleave at the      *)
(* points where two connections can interleave: a SELECT outside a         *)
(* transaction is one step, and a write transaction (first DML statement   *)
(* up to commit) is one step, because sqlite serialises writers on the     *)
(* file's RESERVED lock and readers see only committed pages.              *)
(*                                                                         *)
(* Time is CURRENT_TIMESTAMP in whole seconds.                             *)
(*                                                                         *)
(* The specifications of the operations start after each class has been    *)
(* constructed once, as webapp_bot.py does at import; SpecStore starts      *)
(* before any construction and follows the constructions themselves.       *)
(*                                                                         *)
(* Not modelled: a SHARED lock a connection keeps while a SELECT cursor is *)
(* open, a commit that fails, and the float rounding of julianday().       *)
(***************************************************************************)
EXTENDS Integers, Sequences, FiniteSets, TLC

\* ------------------------------------------------------------------ bounds
\* SpecGame: the game database under two threads
MaxSessions == 2        \* game_sessions rows ever inserted
MaxTaps     == 1        \* tap_history rows ever inserted
MaxEnds     == 1        \* end_game_session calls that find their session
\* SpecGameEnds: a session ended more than once, or by two threads at once
EndsMaxSessions == 1
EndsMaxTaps     == 1
EndsMaxEnds     == 2
\* SpecCleanup: the retention sweep over rows of every age
CleanupMaxSessions == 1
CleanupMaxTaps     == 1
CleanupMaxEnds     == 1
MaxTicks    == 1        \* clock advances
ShortTick   == 30       \* a clock advance within a game, in seconds
LongTickDays == 40      \* a clock advance past the retention window, in days

Users    == {1, 2}      \* user ids / telegram ids the callers pass
Threads  == {1, 2}      \* threads calling into the stores
TapPowers == {1, 2}     \* tap_power arguments of record_tap

\* ------------------------------------------------------- program constants
DefaultTapPower == 1          \* players.tap_power DEFAULT
DefaultDays     == 30         \* cleanup_old_records(days=30)
SecondsPerDay   == 86400      \* sqlite datetime(): 'N days'
NULL            == -1         \* SQL NULL in a TIMESTAMP column

CleanupDays == {0, DefaultDays}   \* `days` arguments of cleanup_old_records

DefaultNickname == "Igrok"    \* DEFAULT of nickname (Cyrillic in the source)
DefaultAvatar   == "avatar1"

VARIABLES
    players,        \* game.db table players:        user_id -> row
    game_sessions,  \* game.db table game_sessions:  id -> row
    tap_history,    \* game.db table tap_history:    id -> row
    now,            \* CURRENT_TIMESTAMP, in seconds
    lock,           \* thread whose game.db connection holds the RESERVED lock
                    \* in a transaction left open, or 0
    gl,             \* per thread: the Database call it is inside
    webapp_users,   \* webapp.db table webapp_users: telegram_id -> row
    achievements,   \* webapp.db table achievements:  id -> row
    wl,             \* per thread: the webapp handler / call it is inside
    ret,            \* the last call that returned or raised
    hist,           \* history of the run, see HistInit
    store,          \* per class: the singleton, its db_file, its _local
    purchases,      \* webapp.db table purchases:     id -> row
    user_scores,    \* tapper_bot.py user_scores:     user_id -> points
    active_games,   \* tapper_bot.py active_games:    user_id -> game
    leaderboard,    \* tapper_bot.py leaderboard:     user_id -> entry
    jobs            \* the job queue's game_timer jobs: id -> job

vars == <<players, game_sessions, tap_history, now, lock, gl,
          webapp_users, achievements, wl, ret, hist, store, purchases,
          user_scores, active_games, leaderboard, jobs>>

gameVars == <<players, game_sessions, tap_history, lock, gl>>
webVars  == <<webapp_users, achievements, wl, purchases>>
botVars  == <<user_scores, active_games, leaderboard, jobs>>

\* ----------------------------------------------------------------- helpers
Max(a, b) == IF a >= b THEN a ELSE b

\* f with key k bound to v (INSERT of a new key, or replacement of a row)
Put(f, k, v) == [x \in (DOMAIN f) \cup {k} |-> IF x = k THEN v ELSE f[x]]

\* f without the keys in ks (DELETE)
Drop(f, ks) == [x \in (DOMAIN f) \ ks |-> f[x]]

EmptyTable == [x \in {} |-> 0]

\* INTEGER PRIMARY KEY AUTOINCREMENT: one more than the largest id.  (No call
\* that completes deletes a row, see cleanup_old_records, so the largest id
\* ever issued is the largest id present.)
NextIdOf(ids) ==
    IF ids = {} THEN 1
    ELSE (CHOOSE m \in ids : \A x \in ids : x <= m) + 1

NextId(f) == NextIdOf(DOMAIN f)

\* ------------------------------------------------------------ game.db rows
\* INSERT INTO players (user_id) VALUES (?) : every other column its DEFAULT
PlayerWithoutTapPower(t) ==
    [nickname           |-> DefaultNickname,
     avatar             |-> DefaultAvatar,
     total_taps         |-> 0,
     best_score         |-> 0,
     tap_power          |-> 0,
     taps_per_minute    |-> 0,
     current_score      |-> 0,
     game_state         |-> "idle",
     last_tap_time      |-> NULL,
     session_start_time |-> NULL,
     last_updated       |-> t]

DefaultPlayer(t) ==
    [nickname           |-> DefaultNickname,
     avatar             |-> DefaultAvatar,
     total_taps         |-> 0,
     best_score         |-> 0,
     tap_power          |-> DefaultTapPower,
     taps_per_minute    |-> 0,
     current_score      |-> 0,
     game_state         |-> "idle",
     last_tap_time      |-> NULL,
     session_start_time |-> NULL,
     last_updated       |-> t]

\* INSERT INTO game_sessions (user_id, start_time) VALUES (?, CURRENT_TIMESTAMP)
NewSession(user_id, t) ==
    [user_id         |-> user_id,
     start_time      |-> t,
     end_time        |-> NULL,
     total_taps      |-> 0,
     score           |-> 0,
     taps_per_minute |-> 0]

\* INSERT INTO tap_history (user_id, session_id, tap_power) VALUES (?, ?, ?)
NewTap(user_id, session_id, tap_power, t) ==
    [user_id    |-> user_id,
     session_id |-> session_id,
     tap_time   |-> t,
     tap_power  |-> tap_power]

\* The three tables of game.db as one value
GameDb == [players |-> players, game_sessions |-> game_sessions,
           tap_history |-> tap_history]

\* ------------------------------------------------- Database.start_game_session
\* INSERT OR REPLACE ... ON CONFLICT(user_id) DO UPDATE SET ... : the upsert
\* clause decides a conflict on user_id, so an existing row keeps every column
\* the SET list does not name; a new row takes the column DEFAULTs.
UpsertPlaying(row, t) ==
    [row EXCEPT !.game_state = "playing",
                !.current_score = 0,
                !.session_start_time = t,
                !.last_updated = t]

\* (start_game_session replacing the row: INSERT OR REPLACE with no upsert
\* clause, every column not named back at its default)
start_game_session_replace(db, user_id, t) ==
    LET sid == NextId(db.game_sessions)
    IN  [db     |-> [db EXCEPT
                       !.players = Put(@, user_id,
                                       UpsertPlaying(DefaultPlayer(t), t)),
                       !.game_sessions = Put(@, sid, NewSession(user_id, t))],
         raised |-> "",
         value  |-> <<sid>>]

start_game_session(db, user_id, t) ==
    LET old == IF user_id \in DOMAIN db.players
               THEN db.players[user_id] ELSE DefaultPlayer(t)
        sid == NextId(db.game_sessions)
    IN  [db     |-> [db EXCEPT
                       !.players = Put(@, user_id, UpsertPlaying(old, t)),
                       !.game_sessions = Put(@, sid, NewSession(user_id, t))],
         raised |-> "",
         value  |-> <<sid>>]

\* ---------------------------------------------------------- Database.record_tap
\* PRAGMA foreign_keys = ON: the INSERT into tap_history fails unless both
\* parents exist; the except branch rolls back and re-raises.
\* (record_tap_partial: the tap row staying behind when the call raises)
record_tap_partial(db, user_id, session_id, tap_power, t) ==
    IF ~(user_id \in DOMAIN db.players /\ session_id \in DOMAIN db.game_sessions)
    THEN [db |-> [db EXCEPT
                    !.tap_history = Put(@, NextId(@),
                                        NewTap(user_id, session_id, tap_power, t))],
          raised |-> "IntegrityError", value |-> <<>>]
    ELSE [db |-> [db EXCEPT
                    !.tap_history = Put(@, NextId(@),
                                        NewTap(user_id, session_id, tap_power, t)),
                    !.players[user_id] =
                        [@ EXCEPT !.current_score = @ + tap_power,
                                  !.last_tap_time = t,
                                  !.last_updated = t],
                    !.game_sessions[session_id] =
                        [@ EXCEPT !.total_taps = @ + 1,
                                  !.score = @ + tap_power]],
          raised |-> "",
          value  |-> <<>>]

record_tap(db, user_id, session_id, tap_power, t) ==
    IF ~(user_id \in DOMAIN db.players /\ session_id \in DOMAIN db.game_sessions)
    THEN [db |-> db, raised |-> "IntegrityError", value |-> <<>>]
    ELSE [db |-> [db EXCEPT
                    !.tap_history = Put(@, NextId(@),
                                        NewTap(user_id, session_id, tap_power, t)),
                    !.players[user_id] =
                        [@ EXCEPT !.current_score = @ + tap_power,
                                  !.last_tap_time = t,
                                  !.last_updated = t],
                    !.game_sessions[session_id] =
                        [@ EXCEPT !.total_taps = @ + 1,
                                  !.score = @ + tap_power]],
          raised |-> "",
          value  |-> <<>>]

\* ---------------------------------------------------- Database.end_game_session
\* duration in minutes is (now - start_time) / 60; int(total_taps / duration)
\* when duration > 0, else 0.  (Exact arithmetic: the float rounding of
\* julianday() is not modelled.)
TapsPerMinute(total_taps, start_time, t) ==
    IF t - start_time > 0 THEN (total_taps * 60) \div (t - start_time) ELSE 0

\* CASE WHEN ? > col THEN ? ELSE col END
MergeMaxReplace(current, incoming) == incoming
MergeMax(current, incoming) ==
    IF incoming > current THEN incoming ELSE current

\* total_taps = total_taps + ?   with ? = session['total_taps']
AddSessionScore(current, session) == current + session.score
AddSessionTaps(current, session) == current + session.total_taps

\* The write transaction of end_game_session: `session` is the row the SELECT
\* returned, `tpm` the rate computed from it.
end_game_session(db, user_id, session_id, session, tpm, t) ==
    LET s1 == IF session_id \in DOMAIN db.game_sessions
              THEN [db.game_sessions EXCEPT ![session_id] =
                       [@ EXCEPT !.end_time = t, !.taps_per_minute = tpm]]
              ELSE db.game_sessions
        p1 == IF user_id \in DOMAIN db.players
              THEN [db.players EXCEPT ![user_id] =
                       [@ EXCEPT
                          !.total_taps = AddSessionTaps(@, session),
                          !.best_score = MergeMax(@, session.score),
                          !.taps_per_minute = MergeMax(@, tpm),
                          !.game_state = "idle",
                          !.current_score = 0,
                          !.last_updated = t]]
              ELSE db.players
    IN  [db     |-> [db EXCEPT !.players = p1, !.game_sessions = s1],
         raised |-> "",
         value  |-> <<[total_taps |-> session.total_taps,
                       score |-> session.score,
                       taps_per_minute |-> tpm]>>]

\* ------------------------------------------------- Database.cleanup_old_records
\* c.execute(sql, (days,)): sqlite3 raises ProgrammingError when the number of
\* values supplied differs from the number of '?' markers of the statement.
\* In both DELETE statements the only '?' stands inside the string literal
\* '-? days', which is text, not a marker.
CleanupSessionsMarkers == 0
CleanupPlayersMarkers  == 0
CleanupSupplied        == 1

BindingError(markers, supplied) == markers # supplied

\* datetime('now', '-? days'): '-? days' is no valid modifier, so the value
\* is NULL whatever `days` is.
CleanupCutoff(days, t) == NULL

\* col < cutoff in a WHERE clause: NULL on either side selects no row
Before(ts, cutoff) == ts # NULL /\ cutoff # NULL /\ ts < cutoff

\* DELETE FROM game_sessions WHERE start_time < cutoff, with ON DELETE CASCADE
\* to tap_history
DeleteOldSessions(db, cutoff) ==
    LET gone == {s \in DOMAIN db.game_sessions :
                    Before(db.game_sessions[s].start_time, cutoff)}
    IN  [db EXCEPT
           !.game_sessions = Drop(@, gone),
           !.tap_history = Drop(@, {h \in DOMAIN @ : @[h].session_id \in gone})]

\* (DeleteWithoutCascade: the players rows alone deleted, foreign keys off)
DeleteWithoutCascade(db, cutoff) ==
    LET gone == {u \in DOMAIN db.players :
                    /\ Before(db.players[u].last_updated, cutoff)
                    /\ db.players[u].total_taps = 0
                    /\ db.players[u].taps_per_minute = 0}
    IN  [db EXCEPT !.players = Drop(@, gone)]

\* DELETE FROM players WHERE last_updated < cutoff AND total_taps = 0 AND
\* taps_per_minute = 0, with ON DELETE CASCADE to game_sessions and tap_history
DeleteInactivePlayers(db, cutoff) ==
    LET gone == {u \in DOMAIN db.players :
                    /\ Before(db.players[u].last_updated, cutoff)
                    /\ db.players[u].total_taps = 0
                    /\ db.players[u].taps_per_minute = 0}
        sess == {s \in DOMAIN db.game_sessions :
                    db.game_sessions[s].user_id \in gone}
    IN  [db EXCEPT
           !.players = Drop(@, gone),
           !.game_sessions = Drop(@, sess),
           !.tap_history = Drop(@, {h \in DOMAIN @ :
                                       \/ @[h].user_id \in gone
                                       \/ @[h].session_id \in sess})]

\* conn.rollback(): the tables are what they were when the transaction began
Rollback(before, working) == before

\* Two sweeps the code is not, against which the claims about it are tested:
\* one whose statements bind `days` and whose second DELETE forgets the
\* activity test, and one whose first DELETE binds `days` and whose second
\* raises with no rollback after it.
cleanup_any_stale_player(db, days, t) ==
    LET cutoff == t - days * SecondsPerDay
        d1 == DeleteOldSessions(db, cutoff)
        gone == {u \in DOMAIN d1.players :
                    Before(d1.players[u].last_updated, cutoff)}
    IN  [db |-> [d1 EXCEPT !.players = Drop(@, gone)],
         raised |-> "", value |-> <<>>]

cleanup_without_rollback(db, days, t) ==
    [db |-> DeleteOldSessions(db, t - days * SecondsPerDay),
     raised |-> "ProgrammingError", value |-> <<>>]

cleanup_old_records(db, days, t) ==
    IF BindingError(CleanupSessionsMarkers, CleanupSupplied)
    THEN [db |-> Rollback(db, db), raised |-> "ProgrammingError", value |-> <<>>]
    ELSE LET d1 == DeleteOldSessions(db, CleanupCutoff(days, t))
         IN  IF BindingError(CleanupPlayersMarkers, CleanupSupplied)
             THEN [db |-> Rollback(db, d1), raised |-> "ProgrammingError",
                   value |-> <<>>]
             ELSE [db |-> DeleteInactivePlayers(d1, CleanupCutoff(days, t)),
                   raised |-> "", value |-> <<>>]

\* ------------------------------------------------------------ calls and threads
\* What a thread keeps between the steps of one Database call
GIdle == [pc |-> "idle", user_id |-> 0, session_id |-> 0,
          total_taps |-> 0, score |-> 0, tpm |-> 0]

\* The record of a call that returned (raised = "") or raised
Returned(op, raised, value) ==
    [op |-> op, raised |-> raised, value |-> value, inserted |-> FALSE]

\* ... of a get_player / get_or_create_user that inserted the row it returns
ReturnedNew(op, value) ==
    [op |-> op, raised |-> "", value |-> value, inserted |-> TRUE]

NoCall == Returned("none", "", <<>>)

\* A write statement of thread t waits on the RESERVED lock another connection
\* holds and raises OperationalError ('database is locked') when the busy
\* timeout runs out first.
LockedOut(t) == lock \notin {0, t}

\* commit() or rollback() on thread t's connection ends its transaction
Released(t) == IF lock = t THEN 0 ELSE lock

\* The row as get_player returns it: dict(row), user_id included
PlayerDict(user_id, row) == [user_id |-> user_id, row |-> row]

\* History: the counters that bound a run (clock advances, session ends begun,
\* gameEnd handlers begun), the user of the last end_game_session that
\* committed, the log of committed gameEnd updates, whether a call ever began
\* while another was in progress, the limit of the last get_leaderboard,
\* whether update_user_data ever wrote a dict with a number under its floor,
\* per user the nickname and avatar values last handed in by an update that
\* committed, the connections get_connection has returned, and the
\* record_purchase calls begun with the user_id and cost of the last one, and
\* for each user of the bot the scores of the games deleted from active_games
HistInit == [ticks |-> 0, ends |-> 0, ended |-> 0, ops |-> 0, log |-> <<>>,
             overlap |-> FALSE, limit |-> 0, floored |-> FALSE,
             texts |-> [u \in Users |-> <<>>], connections |-> {},
             bought |-> 0, asked |-> <<0, 0>>,
             finished |-> [u \in Users |-> <<>>]]

StoreGame(db) ==
    /\ players' = db.players
    /\ game_sessions' = db.game_sessions
    /\ tap_history' = db.tap_history

\* One call of a single-transaction method: `r` is its result on GameDb.
\* Locked out, it raises OperationalError and its except branch rolls back.
GameCall(op, t, r) ==
    /\ gl[t].pc = "idle"
    /\ IF LockedOut(t)
       THEN /\ UNCHANGED <<players, game_sessions, tap_history, lock>>
            /\ ret' = Returned(op, "OperationalError", <<>>)
       ELSE /\ StoreGame(r.db)
            /\ lock' = Released(t)
            /\ ret' = Returned(op, r.raised, r.value)
    /\ UNCHANGED <<botVars, store, now, gl, webVars, hist>>

StartGameSession(t, user_id) ==
    GameCall("start_game_session", t, start_game_session(GameDb, user_id, now))

RecordTap(t, user_id, session_id, tap_power) ==
    GameCall("record_tap", t,
             record_tap(GameDb, user_id, session_id, tap_power, now))

\* cleanup_old_records: execute() binds the values before the statement runs,
\* so the binding error of the first DELETE comes before the statement asks for
\* the lock; the except branch rolls back whatever transaction the thread's
\* connection had open.
CleanupOldRecords(t, days) ==
    /\ gl[t].pc = "idle"
    /\ LET r == cleanup_old_records(GameDb, days, now)
       IN  IF /\ LockedOut(t)
              /\ ~BindingError(CleanupSessionsMarkers, CleanupSupplied)
           THEN /\ UNCHANGED <<players, game_sessions, tap_history, lock>>
                /\ ret' = Returned("cleanup_old_records", "OperationalError",
                                   <<>>)
           ELSE /\ StoreGame(r.db)
                /\ lock' = Released(t)
                /\ ret' = Returned("cleanup_old_records", r.raised, r.value)
    /\ UNCHANGED <<botVars, store, now, gl, webVars, hist>>

\* end_game_session, the SELECT: no row, and the method returns None
EndGameSessionSelect(t, user_id, session_id) ==
    /\ gl[t].pc = "idle"
    /\ IF session_id \in DOMAIN game_sessions
       THEN /\ gl' = [gl EXCEPT ![t] =
                        [pc |-> "end_write", user_id |-> user_id,
                         session_id |-> session_id,
                         total_taps |-> game_sessions[session_id].total_taps,
                         score |-> game_sessions[session_id].score,
                         tpm |-> TapsPerMinute(
                                    game_sessions[session_id].total_taps,
                                    game_sessions[session_id].start_time, now)]]
            /\ hist' = [hist EXCEPT !.ends = @ + 1]
            /\ UNCHANGED ret
       ELSE /\ ret' = Returned("end_game_session", "", <<>>)
            /\ UNCHANGED <<gl, hist>>
    /\ UNCHANGED <<botVars, store, players, game_sessions, tap_history, now, lock,
                   webVars>>

\* end_game_session, the two UPDATEs and the commit
EndGameSessionWrite(t) ==
    /\ gl[t].pc = "end_write"
    /\ LET r == end_game_session(GameDb, gl[t].user_id, gl[t].session_id,
                                 [total_taps |-> gl[t].total_taps,
                                  score |-> gl[t].score],
                                 gl[t].tpm, now)
       IN  IF LockedOut(t)
           THEN /\ UNCHANGED <<players, game_sessions, tap_history, lock>>
                /\ ret' = Returned("end_game_session", "OperationalError", <<>>)
                /\ UNCHANGED hist
           ELSE /\ StoreGame(r.db)
                /\ lock' = Released(t)
                /\ ret' = Returned("end_game_session", r.raised, r.value)
                /\ hist' = [hist EXCEPT !.ended = gl[t].user_id]
    /\ gl' = [gl EXCEPT ![t] = GIdle]
    /\ UNCHANGED <<botVars, store, now, webVars>>

GameBusy == {t \in Threads : gl[t].pc # "idle"}

\* get_player, the first SELECT: an existing row is returned as it is
GetPlayerSelect(t, user_id) ==
    /\ gl[t].pc = "idle"
    /\ IF user_id \in DOMAIN players
       THEN /\ ret' = Returned("get_player", "",
                               <<PlayerDict(user_id, players[user_id])>>)
            /\ UNCHANGED gl
       ELSE /\ gl' = [gl EXCEPT ![t] = [GIdle EXCEPT !.pc = "gp_insert",
                                                     !.user_id = user_id]]
            /\ UNCHANGED ret
    /\ hist' = [hist EXCEPT !.overlap = @ \/ GameBusy # {}]
    /\ UNCHANGED <<botVars, store, players, game_sessions, tap_history, now, lock, webVars>>

\* get_player, INSERT + commit + second SELECT.  The except branch re-raises
\* without a rollback: an INSERT that fails on the PRIMARY KEY leaves the
\* transaction open, and with it the RESERVED lock the statement took.
GetPlayerInsert(t) ==
    /\ gl[t].pc = "gp_insert"
    /\ LET u == gl[t].user_id
       IN  IF LockedOut(t)
           THEN /\ UNCHANGED <<players, lock>>
                /\ ret' = Returned("get_player", "OperationalError", <<>>)
           ELSE IF u \in DOMAIN players
           THEN /\ UNCHANGED players
                /\ lock' = t
                /\ ret' = Returned("get_player", "IntegrityError", <<>>)
           ELSE /\ players' = Put(players, u, DefaultPlayer(now))
                /\ lock' = Released(t)
                /\ ret' = ReturnedNew("get_player",
                                      <<PlayerDict(u, DefaultPlayer(now))>>)
    /\ gl' = [gl EXCEPT ![t] = GIdle]
    /\ UNCHANGED <<botVars, store, game_sessions, tap_history, now, webVars, hist>>

\* CURRENT_TIMESTAMP advances
Tick(d) ==
    /\ now' = now + d
    /\ hist' = [hist EXCEPT !.ticks = @ + 1]
    /\ UNCHANGED <<botVars, store, players, game_sessions, tap_history, lock, gl,
                   webVars, ret>>

\* ======================================================= WebAppDatabase
\* INSERT INTO webapp_users (telegram_id) VALUES (?) : id from AUTOINCREMENT,
\* every other column its DEFAULT
DefaultUser(id, t) ==
    [id              |-> id,
     nickname        |-> DefaultNickname,
     avatar          |-> DefaultAvatar,
     total_taps      |-> 0,
     best_score      |-> 0,
     tap_power       |-> DefaultTapPower,
     taps_per_minute |-> 0,
     coins           |-> 0,
     last_updated    |-> t]

\* dict(user) as get_or_create_user returns it
UserDict(telegram_id, row) == [telegram_id |-> telegram_id, row |-> row]

\* --- Python values.  A JSON payload carries integers and strings, kept as
\* they are (int() of an int and str() of a str return it).  The dict a caller
\* hands to update_user_data may hold any value: an int, a str or None.
PyInt(n) == <<"int", n>>
PyStr(s) == <<"str", s>>
PyNone   == <<"None">>

\* The decimal texts of the integers the model writes out or reads
Decimals == {<<"-1", -1>>, <<"0", 0>>, <<"1", 1>>, <<"2", 2>>, <<"3", 3>>}

\* int(v): the int itself, the integer a str spells, ValueError for any other
\* str, TypeError for None
int(v) ==
    CASE v[1] = "int" -> [raised |-> "", value |-> v[2]]
      [] v[1] = "str" ->
            IF \E d \in Decimals : d[1] = v[2]
            THEN [raised |-> "",
                  value |-> (CHOOSE d \in Decimals : d[1] = v[2])[2]]
            ELSE [raised |-> "ValueError", value |-> 0]
      [] OTHER -> [raised |-> "TypeError", value |-> 0]

\* str(v): the str itself, the decimal text of an int, 'None' for None
str(v) ==
    CASE v[1] = "str" -> v[2]
      [] v[1] = "int" -> (CHOOSE d \in Decimals : d[2] = v[2])[1]
      [] OTHER -> "None"

\* data.get(key, default) on a JSON object / dict
Get(data, key, default) == IF key \in DOMAIN data THEN data[key] ELSE default

\* handle_webapp_data, action gameEnd: the values normalised from the payload
\* and the update_data dict built from them and from the row read before
GameEndScore(data) == Max(0, Get(data, "score", 0))
GameEndRate(data)  == Max(0, Get(data, "tapsPerMinute", 0))

\* 'total_taps': current_data['total_taps'] + score
ScoreAlone(total_taps, score) == score
AddScore(total_taps, score) == total_taps + score

GameEndUpdateData(data, current) ==
    LET score == GameEndScore(data)
        taps_per_minute == GameEndRate(data)
        tap_power == Max(1, Get(data, "tapPower", 1))
        coins_earned == Max(0, Get(data, "coinsEarned", score \div 10))
    IN  [nickname        |-> Get(data, "nickname", current.nickname),
         avatar          |-> Get(data, "avatar", current.avatar),
         total_taps      |-> AddScore(current.total_taps, score),
         best_score      |-> Max(current.best_score, score),
         tap_power       |-> tap_power,
         taps_per_minute |-> Max(current.taps_per_minute, taps_per_minute),
         coins           |-> current.coins + coins_earned]

\* handle_webapp_data, action updateProfile: the update_data dict, the two
\* texts alone
UpdateProfileData(data, current) ==
    [nickname |-> Get(data, "nickname", current.nickname),
     avatar   |-> Get(data, "avatar", current.avatar)]

\* The update_data dict of the handler running
HandlerData(op, data, current) ==
    IF op = "gameEnd" THEN GameEndUpdateData(data, current)
    ELSE UpdateProfileData(data, current)

\* The dict a handler hands to update_user_data: its texts and numbers as
\* Python values
PyDict(d) ==
    [k \in DOMAIN d |->
        IF k \in {"nickname", "avatar"} THEN PyStr(d[k]) ELSE PyInt(d[k])]

\* int(data.get(key, default)) and str(data.get(key, default)); the default is
\* the column of the row read, an int or a str already
IntField(data, key, default) ==
    IF key \in DOMAIN data THEN int(data[key])
    ELSE [raised |-> "", value |-> default]

\* (StoredText: the text of the row kept, the value handed in thrown away)
StoredText(data, key, default) == default

StrField(data, key, default) ==
    IF key \in DOMAIN data THEN str(data[key]) ELSE default

\* The floors of the numeric fields, and a dict with a number under its floor
Floor(key) == IF key = "tap_power" THEN 1 ELSE 0

BelowFloor(data) ==
    \E k \in DOMAIN data :
        /\ k \notin {"nickname", "avatar"}
        /\ int(data[k]).raised = ""
        /\ int(data[k]).value < Floor(k)

\* max(lo, v)
NoClamp(lo, v) == v
Clamp(lo, v) == Max(lo, v)

\* WebAppDatabase.update_user_data: the update_data dict merged from `data`
\* and the row its own get_or_create_user returned, numeric fields converted
\* and clamped.  The dict display is evaluated in the order written, so the
\* first field that does not convert decides the exception.
MergeUpdate(data, current) ==
    LET total_taps == IntField(data, "total_taps", current.total_taps)
        best_score == IntField(data, "best_score", current.best_score)
        tap_power == IntField(data, "tap_power", current.tap_power)
        taps_per_minute == IntField(data, "taps_per_minute",
                                    current.taps_per_minute)
        coins == IntField(data, "coins", current.coins)
        fields == <<total_taps, best_score, tap_power, taps_per_minute, coins>>
        failed == {i \in 1 .. 5 : fields[i].raised # ""}
    IN  IF failed # {}
        THEN [raised |-> fields[CHOOSE i \in failed :
                                   \A j \in failed : i <= j].raised,
              value |-> <<>>]
        ELSE [raised |-> "",
              value |-> <<[nickname |-> StrField(data, "nickname",
                                                 current.nickname),
                           avatar |-> StrField(data, "avatar", current.avatar),
                           total_taps |-> Clamp(Floor("total_taps"),
                                                total_taps.value),
                           best_score |-> Clamp(Floor("best_score"),
                                                best_score.value),
                           tap_power |-> Clamp(Floor("tap_power"),
                                               tap_power.value),
                           taps_per_minute |-> Clamp(Floor("taps_per_minute"),
                                                     taps_per_minute.value),
                           coins |-> Clamp(Floor("coins"), coins.value)]>>]

\* The nickname / avatar values an update was handed: those of the dict of a
\* direct call, those of the JSON payload of a handler
TextKeys == {"nickname", "avatar"}

Given(op, payload) ==
    [k \in TextKeys \cap DOMAIN payload |->
        IF op = "update_user_data" THEN payload[k] ELSE PyStr(payload[k])]

\* UPDATE webapp_users SET <all seven columns>, last_updated = CURRENT_TIMESTAMP
\* WHERE telegram_id = :telegram_id, then commit; a conversion that raises
\* comes before the UPDATE, and the except branch rolls back and re-raises
update_user_data(users, telegram_id, data, current, t) ==
    LET m == MergeUpdate(data, current)
        u == m.value[1]
    IN  IF m.raised # ""
        THEN [users |-> users, raised |-> m.raised, value |-> <<>>]
        ELSE [users |->
                 IF telegram_id \in DOMAIN users
                 THEN [users EXCEPT ![telegram_id] =
                         [@ EXCEPT !.nickname = u.nickname,
                                   !.avatar = u.avatar,
                                   !.total_taps = u.total_taps,
                                   !.best_score = u.best_score,
                                   !.tap_power = u.tap_power,
                                   !.taps_per_minute = u.taps_per_minute,
                                   !.coins = u.coins,
                                   !.last_updated = t]]
                 ELSE users,
              raised |-> "",
              value |-> m.value]

\* thresholds of the achievements recorded after a gameEnd update
HighScoreOver == 1000
SpeedDemonOver == 100

\* What a thread keeps between the steps of one handler / WebAppDatabase call:
\*   op       the handler or method running ("gameEnd", "updateProfile",
\*            "update_user_data", "get_or_create_user")
\*   pc       "achievements": gameEnd has updated the row and is about to
\*                      record the achievements earned
\*            "purchase": record_purchase found the balance sufficient and
\*                      is about to INSERT the purchase and charge it
\*            "insert": get_or_create_user found no row and is about to INSERT
\*            "update": about to call update_user_data (its SELECT comes next)
\*            "write":  update_user_data holds its row and is about to UPDATE
\*   stage    which get_or_create_user call is running: "read" (the handler's
\*            own) or "update" (the one inside update_user_data)
\*   data     the payload / the dict passed to update_user_data
\*   current  the row the handler read, as <<row>>
\*   row      the row update_user_data read, as <<row>>
WIdle == [pc |-> "idle", op |-> "", stage |-> "", telegram_id |-> 0,
          payload |-> <<>>, data |-> <<>>, current |-> <<>>, row |-> <<>>]

WebBusy == {t \in Threads : wl[t].pc # "idle"}

\* --- get_or_create_user on its own (the /start and loadUserData handlers)
GetOrCreateUserSelect(t, telegram_id) ==
    /\ wl[t].pc = "idle"
    /\ IF telegram_id \in DOMAIN webapp_users
       THEN /\ ret' = Returned("get_or_create_user", "",
                               <<UserDict(telegram_id, webapp_users[telegram_id])>>)
            /\ UNCHANGED wl
       ELSE /\ wl' = [wl EXCEPT ![t] =
                        [WIdle EXCEPT !.pc = "insert",
                                      !.op = "get_or_create_user",
                                      !.stage = "read",
                                      !.telegram_id = telegram_id]]
            /\ UNCHANGED ret
    /\ hist' = [hist EXCEPT !.overlap = @ \/ WebBusy # {}]
    /\ UNCHANGED <<botVars, store, purchases, gameVars, now, webapp_users, achievements>>

\* --- handler gameEnd: get_or_create_user (its SELECT), then the dict
GameEndBegin(t, telegram_id, payload) ==
    /\ wl[t].pc = "idle"
    /\ LET w == [WIdle EXCEPT !.op = "gameEnd", !.stage = "read",
                              !.telegram_id = telegram_id,
                              !.payload = payload]
       IN  wl' = [wl EXCEPT ![t] =
                    IF telegram_id \in DOMAIN webapp_users
                    THEN [w EXCEPT
                            !.pc = "update",
                            !.current = <<webapp_users[telegram_id]>>,
                            !.data = PyDict(GameEndUpdateData(payload,
                                        webapp_users[telegram_id]))]
                    ELSE [w EXCEPT !.pc = "insert"]]
    /\ hist' = [hist EXCEPT !.ops = @ + 1,
                            !.overlap = @ \/ WebBusy # {}]
    /\ UNCHANGED <<botVars, store, purchases, gameVars, now, webapp_users, achievements, ret>>

\* --- handler updateProfile: get_or_create_user (its SELECT), then the dict
UpdateProfileBegin(t, telegram_id, payload) ==
    /\ wl[t].pc = "idle"
    /\ LET w == [WIdle EXCEPT !.op = "updateProfile", !.stage = "read",
                              !.telegram_id = telegram_id,
                              !.payload = payload]
       IN  wl' = [wl EXCEPT ![t] =
                    IF telegram_id \in DOMAIN webapp_users
                    THEN [w EXCEPT
                            !.pc = "update",
                            !.current = <<webapp_users[telegram_id]>>,
                            !.data = PyDict(UpdateProfileData(payload,
                                        webapp_users[telegram_id]))]
                    ELSE [w EXCEPT !.pc = "insert"]]
    /\ hist' = [hist EXCEPT !.ops = @ + 1,
                            !.overlap = @ \/ WebBusy # {}]
    /\ UNCHANGED <<botVars, store, purchases, gameVars, now, webapp_users, achievements, ret>>

\* --- update_user_data called with a dict of the caller's own
UpdateUserDataCall(t, telegram_id, data) ==
    /\ wl[t].pc = "idle"
    /\ wl' = [wl EXCEPT ![t] =
                [WIdle EXCEPT !.op = "update_user_data", !.pc = "update",
                              !.stage = "update",
                              !.telegram_id = telegram_id,
                              !.payload = data, !.data = data]]
    /\ hist' = [hist EXCEPT !.ops = @ + 1,
                            !.overlap = @ \/ WebBusy # {}]
    /\ UNCHANGED <<botVars, store, purchases, gameVars, now, webapp_users, achievements, ret>>

\* --- get_or_create_user, INSERT + commit + second SELECT; the INSERT fails on
\* UNIQUE(telegram_id) when another connection inserted the row meanwhile, and
\* the except branch rolls back and re-raises.  Inside gameEnd the raise reaches
\* the handler's outer except; inside update_user_data it is re-raised to the
\* caller, who catches it.
GetOrCreateUserInsert(t) ==
    /\ wl[t].pc = "insert"
    /\ LET u == wl[t].telegram_id
           new == DefaultUser(NextIdOf({webapp_users[x].id :
                                           x \in DOMAIN webapp_users}), now)
       IN  IF u \in DOMAIN webapp_users
           THEN /\ UNCHANGED webapp_users
                /\ ret' = Returned(wl[t].op, "IntegrityError", <<>>)
                /\ wl' = [wl EXCEPT ![t] = WIdle]
           ELSE /\ webapp_users' = Put(webapp_users, u, new)
                /\ CASE wl[t].op = "get_or_create_user" ->
                          /\ ret' = ReturnedNew("get_or_create_user",
                                                <<UserDict(u, new)>>)
                          /\ wl' = [wl EXCEPT ![t] = WIdle]
                     [] wl[t].stage = "read" ->
                          /\ wl' = [wl EXCEPT ![t] =
                                      [@ EXCEPT
                                         !.pc = "update",
                                         !.current = <<new>>,
                                         !.data = PyDict(HandlerData(wl[t].op,
                                                     wl[t].payload, new))]]
                          /\ UNCHANGED ret
                     [] OTHER ->
                          /\ wl' = [wl EXCEPT ![t] =
                                      [@ EXCEPT !.pc = "write",
                                                !.row = <<new>>]]
                          /\ UNCHANGED ret
    /\ UNCHANGED <<botVars, store, purchases, gameVars, now, achievements, hist>>

\* --- update_user_data: current_data = self.get_or_create_user(telegram_id)
\* (UpdateUserDataRebuild: the variant that builds the gameEnd dict again from
\* the row read here, which the code does not do)
UpdateUserDataRebuild(t) ==
    /\ wl[t].pc = "update"
    /\ LET u == wl[t].telegram_id
       IN  wl' = [wl EXCEPT ![t] =
                    IF u \in DOMAIN webapp_users
                    THEN [@ EXCEPT !.pc = "write", !.stage = "update",
                                   !.row = <<webapp_users[u]>>,
                                   !.data = PyDict(GameEndUpdateData(
                                               wl[t].payload, webapp_users[u]))]
                    ELSE [@ EXCEPT !.pc = "insert", !.stage = "update"]]
    /\ UNCHANGED <<botVars, store, purchases, gameVars, now, webapp_users, achievements, ret, hist>>

UpdateUserDataSelect(t) ==
    /\ wl[t].pc = "update"
    /\ LET u == wl[t].telegram_id
       IN  wl' = [wl EXCEPT ![t] =
                    IF u \in DOMAIN webapp_users
                    THEN [@ EXCEPT !.pc = "write", !.stage = "update",
                                   !.row = <<webapp_users[u]>>]
                    ELSE [@ EXCEPT !.pc = "insert", !.stage = "update"]]
    /\ UNCHANGED <<botVars, store, purchases, gameVars, now, webapp_users, achievements, ret, hist>>

\* --- update_user_data: the conversions, the UPDATE and the commit, or the
\* rollback and the exception when a value does not convert; in gameEnd the
\* handler then records the achievements the score and the rate earn
UpdateUserDataWrite(t) ==
    /\ wl[t].pc = "write"
    /\ LET u == wl[t].telegram_id
           r == update_user_data(webapp_users, u, wl[t].data, wl[t].row[1], now)
       IN  /\ webapp_users' = r.users
           /\ ret' = Returned(wl[t].op, r.raised, r.value)
           /\ hist' = [hist EXCEPT
                         !.log = IF wl[t].op = "gameEnd" /\ r.raised = ""
                                 THEN Append(@,
                                        [user |-> u,
                                         score |-> GameEndScore(wl[t].payload),
                                         rate |-> GameEndRate(wl[t].payload),
                                         read |-> wl[t].current[1]])
                                 ELSE @,
                         !.floored = @ \/ (r.raised = "" /\ BelowFloor(wl[t].data)),
                         !.texts[u] =
                            IF r.raised = ""
                            THEN LET g == Given(wl[t].op, wl[t].payload)
                                 IN  [k \in DOMAIN @ \cup DOMAIN g |->
                                        IF k \in DOMAIN g THEN g[k] ELSE @[k]]
                            ELSE @]
           /\ wl' = [wl EXCEPT ![t] =
                       IF /\ wl[t].op = "gameEnd"
                          /\ r.raised = ""
                          /\ \/ GameEndScore(wl[t].payload) > HighScoreOver
                             \/ GameEndRate(wl[t].payload) > SpeedDemonOver
                       THEN [@ EXCEPT !.pc = "achievements"]
                       ELSE WIdle]
    /\ UNCHANGED <<botVars, store, purchases, gameVars, now, achievements>>

\* --- record_achievement: INSERT INTO achievements (user_id,
\* achievement_type, value) and commit.  The table has no unique key besides
\* its id, a WebAppDatabase connection does not enforce foreign keys, and the
\* method returns nothing (None).
NewAchievement(user_id, achievement_type, value, t) ==
    [user_id |-> user_id, achievement_type |-> achievement_type,
     value |-> value, unlocked_at |-> t]

record_achievement(rows, user_id, achievement_type, value, t) ==
    [rows |-> Put(rows, NextId(rows),
                  NewAchievement(user_id, achievement_type, value, t)),
     raised |-> "",
     value |-> <<"None">>]

RecordAchievement(t, user_id, achievement_type, value) ==
    /\ wl[t].pc = "idle"
    /\ LET r == record_achievement(achievements, user_id, achievement_type,
                                   value, now)
       IN  /\ achievements' = r.rows
           /\ ret' = Returned("record_achievement", r.raised, r.value)
    /\ UNCHANGED <<botVars, store, purchases, gameVars, now, webapp_users, wl, hist>>

\* --- handler gameEnd after its update: record_achievement(current_data['id'],
\* 'high_score', score) when score > 1000, then record_achievement(...,
\* 'speed_demon', taps_per_minute) when taps_per_minute > 100, one call and
\* one commit each
GameEndAchievements(t) ==
    /\ wl[t].pc = "achievements"
    /\ LET score == GameEndScore(wl[t].payload)
           rate == GameEndRate(wl[t].payload)
           id == wl[t].current[1].id
           high == wl[t].stage # "speed_demon" /\ score > HighScoreOver
           r == IF high
                THEN record_achievement(achievements, id, "high_score",
                                        score, now)
                ELSE record_achievement(achievements, id, "speed_demon",
                                        rate, now)
       IN  /\ achievements' = r.rows
           /\ IF high /\ rate > SpeedDemonOver
              THEN /\ wl' = [wl EXCEPT ![t].stage = "speed_demon"]
                   /\ UNCHANGED ret
              ELSE /\ wl' = [wl EXCEPT ![t] = WIdle]
                   /\ ret' = Returned("gameEnd", "", <<>>)
    /\ UNCHANGED <<botVars, store, purchases, gameVars, now, webapp_users, hist>>

\* --- record_purchase(user_id, item_type, item_id, cost); user_id is the id
\* column of webapp_users, not the telegram_id.
\* The webapp_users keys whose row has this id
WithId(users, user_id) == {k \in DOMAIN users : users[k].id = user_id}

\* (AnyBalance: the test without the comparison of the balance)
AnyBalance(users, user_id, cost) == WithId(users, user_id) # {}

\* user and user['coins'] >= cost
CanBuy(users, user_id, cost) ==
    \E k \in WithId(users, user_id) : users[k].coins >= cost

\* INSERT INTO purchases (user_id, item_type, item_id, cost)
NewPurchase(user_id, item_type, item_id, cost, t) ==
    [user_id |-> user_id, item_type |-> item_type, item_id |-> item_id,
     cost |-> cost, purchased_at |-> t]

\* UPDATE webapp_users SET coins = coins - ?, last_updated = CURRENT_TIMESTAMP
\* WHERE id = ?
Charge(users, user_id, cost, t) ==
    [k \in DOMAIN users |->
        IF users[k].id = user_id
        THEN [users[k] EXCEPT !.coins = @ - cost, !.last_updated = t]
        ELSE users[k]]

\* the SELECT of the balance and the test; False is returned at once
RecordPurchaseSelect(t, user_id, item_type, item_id, cost) ==
    /\ wl[t].pc = "idle"
    /\ IF CanBuy(webapp_users, user_id, cost)
       THEN /\ wl' = [wl EXCEPT ![t] =
                        [WIdle EXCEPT
                           !.op = "record_purchase", !.pc = "purchase",
                           !.payload = [user_id |-> user_id,
                                        item_type |-> item_type,
                                        item_id |-> item_id,
                                        cost |-> cost]]]
            /\ UNCHANGED ret
       ELSE /\ ret' = Returned("record_purchase", "", <<"False">>)
            /\ UNCHANGED wl
    /\ hist' = [hist EXCEPT !.overlap = @ \/ WebBusy # {},
                            !.bought = @ + 1,
                            !.asked = <<user_id, cost>>]
    /\ UNCHANGED <<botVars, store, purchases, gameVars, now, webapp_users,
                   achievements>>

\* the INSERT, the UPDATE of the balance and the commit; True is returned
RecordPurchaseWrite(t) ==
    /\ wl[t].pc = "purchase"
    /\ LET d == wl[t].payload
       IN  /\ purchases' = Put(purchases, NextId(purchases),
                               NewPurchase(d.user_id, d.item_type, d.item_id,
                                           d.cost, now))
           /\ webapp_users' = Charge(webapp_users, d.user_id, d.cost, now)
    /\ ret' = Returned("record_purchase", "", <<"True">>)
    /\ wl' = [wl EXCEPT ![t] = WIdle]
    /\ UNCHANGED <<botVars, store, gameVars, now, achievements, hist>>

\* ============================================= construction, connections
\* The two store classes, and the database files a caller may name
Classes  == {"Database", "WebAppDatabase"}
MaxFiles == 2
Files    == 1 .. MaxFiles

\* One class and its singleton:
\*   instance    cls._instance is not None
\*   db_file     self.db_file, 0 before any construction
\*   schema      the files on which init_db has run
\*   local       which threading.local object self._local is: the number of
\*               times __init__ has run
\*   connection  per thread, the connection kept in self._local: its identity
\*               (0 when the attribute is not set) and the file it opened
\*   opened      connections opened so far
NoConnection == [id |-> 0, file |-> 0]

StoreNew == [instance |-> FALSE, db_file |-> 0, schema |-> {}, local |-> 0,
             connection |-> [t \in Threads |-> NoConnection], opened |-> 0]

\* __new__ (the singleton made and init_db run on the first call only), then
\* __init__ (db_file and a new threading.local, on every call)
Construction(s, db_file) ==
    [s EXCEPT !.instance = TRUE,
              !.schema = IF s.instance THEN @ ELSE @ \cup {db_file},
              !.db_file = db_file,
              !.local = @ + 1,
              !.connection = [t \in Threads |-> NoConnection]]

\* db = Database(GAME_DB_PATH); webapp_db = WebAppDatabase(WEBAPP_DB_PATH)
StoreBuilt == [c \in Classes |-> Construction(StoreNew, 1)]

\* get_connection: the connection of the calling thread, opened on
\* self.db_file when self._local has none
get_connection(s, t) ==
    IF s.connection[t].id # 0 THEN s
    ELSE [s EXCEPT !.opened = @ + 1,
                   !.connection[t] = [id |-> s.opened + 1, file |-> s.db_file]]

\* Database(db_file) / WebAppDatabase(db_file)
Construct(cls, db_file) ==
    /\ store' = [store EXCEPT ![cls] = Construction(@, db_file)]
    /\ ret' = Returned("__init__", "", <<cls, db_file>>)
    /\ UNCHANGED <<botVars, gameVars, now, webVars, hist>>

\* get_connection called on the singleton by thread t
GetConnection(cls, t) ==
    /\ store[cls].instance
    /\ LET s == get_connection(store[cls], t)
       IN  /\ store' = [store EXCEPT ![cls] = s]
           /\ ret' = Returned("get_connection", "", <<s.connection[t].id>>)
           /\ hist' = [hist EXCEPT !.connections =
                          @ \cup {[cls |-> cls, thread |-> t,
                                   id |-> s.connection[t].id]}]
    /\ UNCHANGED <<botVars, gameVars, now, webVars>>

\* Any public method: get_connection, then its first statement, which raises
\* OperationalError (no such table) on a file init_db never ran on
FirstStatement(cls, t) ==
    /\ store[cls].instance
    /\ LET s == get_connection(store[cls], t)
       IN  /\ store' = [store EXCEPT ![cls] = s]
           /\ ret' = Returned("execute",
                              IF s.connection[t].file \in s.schema
                              THEN "" ELSE "OperationalError",
                              <<>>)
    /\ UNCHANGED <<botVars, gameVars, now, webVars, hist>>

\* ======================================================== get_leaderboard
\* WHERE taps_per_minute > 0 OR total_taps > 0
Active(row) == row.taps_per_minute > 0 \/ row.total_taps > 0

\* ORDER BY taps_per_minute DESC, total_taps DESC: row a may stand before row b
RankedByTapsAlone(a, b) == a.total_taps >= b.total_taps
Ranked(a, b) ==
    \/ a.taps_per_minute > b.taps_per_minute
    \/ /\ a.taps_per_minute = b.taps_per_minute
       /\ a.total_taps >= b.total_taps

\* LIMIT n: the first n rows; a negative n is no limit
Limit(q, n) ==
    IF n < 0 \/ n >= Len(q) THEN q ELSE SubSeq(q, 1, n)

\* The orders in which the query may produce the selected rows of `table`:
\* every arrangement of their keys that respects ORDER BY (rows equal in both
\* columns come in an order sqlite does not promise)
RankedKeys(table) ==
    LET keys == {k \in DOMAIN table : Active(table[k])}
        n == Cardinality(keys)
    IN  {q \in [1 .. n -> keys] :
            /\ \A i, j \in 1 .. n : i # j => q[i] # q[j]
            /\ \A i, j \in 1 .. n : i < j => Ranked(table[q[i]], table[q[j]])}

\* dict(row) of Database.get_leaderboard / WebAppDatabase.get_leaderboard
PlayerEntry(user_id, row) ==
    [user_id |-> user_id, nickname |-> row.nickname, avatar |-> row.avatar,
     taps_per_minute |-> row.taps_per_minute, total_taps |-> row.total_taps]

UserEntry(telegram_id, row) ==
    [telegram_id |-> telegram_id, nickname |-> row.nickname,
     avatar |-> row.avatar,
     taps_per_minute |-> row.taps_per_minute, total_taps |-> row.total_taps]

\* Database.get_leaderboard(limit): a SELECT outside any transaction
GetLeaderboard(t, limit) ==
    /\ gl[t].pc = "idle"
    /\ \E q \in RankedKeys(players) :
          ret' = Returned("Database.get_leaderboard", "",
                          Limit([i \in 1 .. Len(q) |->
                                    PlayerEntry(q[i], players[q[i]])], limit))
    /\ hist' = [hist EXCEPT !.limit = limit]
    /\ UNCHANGED <<botVars, store, gameVars, now, webVars>>

\* WebAppDatabase.get_leaderboard(limit)
WebGetLeaderboard(t, limit) ==
    /\ wl[t].pc = "idle"
    /\ \E q \in RankedKeys(webapp_users) :
          ret' = Returned("WebAppDatabase.get_leaderboard", "",
                          Limit([i \in 1 .. Len(q) |->
                                    UserEntry(q[i], webapp_users[q[i]])], limit))
    /\ hist' = [hist EXCEPT !.limit = limit]
    /\ UNCHANGED <<botVars, store, gameVars, now, webVars>>

\* ================================================================ behaviours
\* Both database files are new: every table is empty, no thread is in a call.
Init ==
    /\ players = EmptyTable
    /\ game_sessions = EmptyTable
    /\ tap_history = EmptyTable
    /\ now = 0
    /\ lock = 0
    /\ gl = [t \in Threads |-> GIdle]
    /\ webapp_users = EmptyTable
    /\ achievements = EmptyTable
    /\ wl = [t \in Threads |-> WIdle]
    /\ ret = NoCall
    /\ hist = HistInit
    /\ store = StoreBuilt
    /\ purchases = EmptyTable
    /\ user_scores = EmptyTable
    /\ active_games = EmptyTable
    /\ leaderboard = EmptyTable
    /\ jobs = EmptyTable

\* The calls on the game database, by any thread with any arguments, with at
\* most maxS sessions, maxT taps and maxE session ends, the clock advancing by
\* one of `steps`.
NextGameOf(maxS, maxT, maxE, steps) ==
    \/ \E t \in Threads, u \in Users :
          /\ Cardinality(DOMAIN game_sessions) < maxS
          /\ StartGameSession(t, u)
    \/ \E t \in Threads, u \in Users, s \in 1 .. maxS, p \in TapPowers :
          /\ Cardinality(DOMAIN tap_history) < maxT
          /\ RecordTap(t, u, s, p)
    \/ \E t \in Threads, u \in Users, s \in 1 .. maxS :
          /\ hist.ends < maxE
          /\ EndGameSessionSelect(t, u, s)
    \/ \E t \in Threads : EndGameSessionWrite(t)
    \/ \E t \in Threads, u \in Users : GetPlayerSelect(t, u)
    \/ \E t \in Threads : GetPlayerInsert(t)
    \/ \E t \in Threads, d \in CleanupDays : CleanupOldRecords(t, d)
    \/ \E d \in steps : hist.ticks < MaxTicks /\ Tick(d)

NextGame == NextGameOf(MaxSessions, MaxTaps, MaxEnds, {ShortTick})
SpecGame == Init /\ [][NextGame]_vars

NextGameEnds ==
    NextGameOf(EndsMaxSessions, EndsMaxTaps, EndsMaxEnds, {ShortTick})
SpecGameEnds == Init /\ [][NextGameEnds]_vars

NextCleanup ==
    NextGameOf(CleanupMaxSessions, CleanupMaxTaps, CleanupMaxEnds,
               {ShortTick, LongTickDays * SecondsPerDay})
SpecCleanup == Init /\ [][NextCleanup]_vars

\* taps: one session, two taps, one end
TapsMaxSessions == 1
TapsMaxTaps     == 2
TapsMaxEnds     == 1

NextTaps ==
    NextGameOf(TapsMaxSessions, TapsMaxTaps, TapsMaxEnds, {ShortTick})
SpecTaps == Init /\ [][NextTaps]_vars

\* --------------------------------------------------------------- web app
MaxGameEnds == 2        \* gameEnd handlers started
MaxScore    == 2        \* largest score / tapsPerMinute a payload carries

\* {"action": "gameEnd", "score": s, "tapsPerMinute": r}
GameEndPayloads ==
    {[score |-> s, tapsPerMinute |-> r] : s \in 0 .. MaxScore, r \in 0 .. MaxScore}

NextWeb ==
    \/ \E t \in Threads, u \in Users : GetOrCreateUserSelect(t, u)
    \/ \E t \in Threads, u \in Users, d \in GameEndPayloads :
          /\ hist.ops < MaxGameEnds
          /\ GameEndBegin(t, u, d)
    \/ \E t \in Threads : GetOrCreateUserInsert(t)
    \/ \E t \in Threads : UpdateUserDataSelect(t)
    \/ \E t \in Threads : UpdateUserDataWrite(t)

SpecWeb == Init /\ [][NextWeb]_vars

\* ---------------------------------------- web app, every way to update a row
MaxUpdates == 2         \* handlers and update_user_data calls started

\* Dicts handed to update_user_data directly: numbers below the floors, texts
\* that spell a number and texts that do not, None, a number for a text
UpdateDicts ==
    {[total_taps |-> PyStr("abc")],
     [best_score |-> PyStr("2"), coins |-> PyNone],
     [total_taps |-> PyInt(-1), best_score |-> PyInt(-1),
      tap_power |-> PyInt(0), taps_per_minute |-> PyInt(-1),
      coins |-> PyInt(-1)],
     [tap_power |-> PyInt(2), taps_per_minute |-> PyStr("1")],
     [nickname |-> PyStr("Bob"), avatar |-> PyStr("avatar2")],
     [nickname |-> PyInt(2), avatar |-> PyNone]}

\* gameEnd payloads with and without tapPower, coinsEarned and nickname
UpdateGameEnds ==
    {[score |-> 1, tapsPerMinute |-> 1],
     [score |-> 10],
     [score |-> -1, tapsPerMinute |-> -1, tapPower |-> 0, coinsEarned |-> -1],
     [score |-> 2, tapPower |-> 2, nickname |-> "Ann"]}

\* updateProfile payloads
UpdateProfiles ==
    {[nickname |-> "Ann"], [avatar |-> "avatar3"],
     [nickname |-> "Bob", avatar |-> "avatar2"]}

NextUpdate ==
    \/ \E t \in Threads, u \in Users : GetOrCreateUserSelect(t, u)
    \/ \E t \in Threads, u \in Users, d \in UpdateGameEnds :
          /\ hist.ops < MaxUpdates
          /\ GameEndBegin(t, u, d)
    \/ \E t \in Threads, u \in Users, d \in UpdateProfiles :
          /\ hist.ops < MaxUpdates
          /\ UpdateProfileBegin(t, u, d)
    \/ \E t \in Threads, u \in Users, d \in UpdateDicts :
          /\ hist.ops < MaxUpdates
          /\ UpdateUserDataCall(t, u, d)
    \/ \E t \in Threads : GetOrCreateUserInsert(t)
    \/ \E t \in Threads : UpdateUserDataSelect(t)
    \/ \E t \in Threads : UpdateUserDataWrite(t)

SpecUpdate == Init /\ [][NextUpdate]_vars

\* ------------------------------------------------------------ achievements
MaxAchievements == 3    \* rows of the achievements table

AchievementTypes == {"high_score", "speed_demon"}

\* gameEnd payloads over and under the two thresholds
AchievementGameEnds ==
    {[score |-> s, tapsPerMinute |-> r] :
        s \in {HighScoreOver, HighScoreOver + 1},
        r \in {SpeedDemonOver, SpeedDemonOver + 1}}

NextAchievements ==
    \/ \E t \in Threads, u \in Users, d \in AchievementGameEnds :
          /\ hist.ops < MaxGameEnds
          /\ GameEndBegin(t, u, d)
    \/ \E t \in Threads : GetOrCreateUserInsert(t)
    \/ \E t \in Threads : UpdateUserDataSelect(t)
    \/ \E t \in Threads : UpdateUserDataWrite(t)
    \/ \E t \in Threads : GameEndAchievements(t)
    \/ \E t \in Threads, u \in Users, a \in AchievementTypes :
          /\ Cardinality(DOMAIN achievements) < MaxAchievements
          /\ RecordAchievement(t, u, a, HighScoreOver + 1)

SpecAchievements == Init /\ [][NextAchievements]_vars

\* --------------------------------------------------------------- purchases
MaxPurchases == 2       \* record_purchase calls started
MaxCost      == 2       \* largest cost, and largest balance set
MaxGrants    == 1       \* update_user_data calls that set the balance

\* update_user_data dicts that set the balance
CoinDicts == {[coins |-> PyInt(c)] : c \in 1 .. MaxCost}

NextPurchases ==
    \/ \E t \in Threads, u \in Users : GetOrCreateUserSelect(t, u)
    \/ \E t \in Threads : GetOrCreateUserInsert(t)
    \/ \E t \in Threads, u \in Users, d \in CoinDicts :
          /\ hist.ops < MaxGrants
          /\ UpdateUserDataCall(t, u, d)
    \/ \E t \in Threads : UpdateUserDataSelect(t)
    \/ \E t \in Threads : UpdateUserDataWrite(t)
    \/ \E t \in Threads, id \in 1 .. Cardinality(Users), c \in 0 .. MaxCost :
          /\ hist.bought < MaxPurchases
          /\ RecordPurchaseSelect(t, id, "skin", "a", c)
    \/ \E t \in Threads : RecordPurchaseWrite(t)

SpecPurchases == Init /\ [][NextPurchases]_vars

\* =============================================== tapper_bot.py, the in-memory bot
\* The handlers and the job callbacks are coroutines of one event loop: the
\* application handles one update at a time, a game_timer job runs as a task of
\* its own, and control changes hands only at an await.  The Telegram calls
\* are taken to succeed; the chat and the message ids serve only those calls.
GAME_DURATION == 30

Usernames == {"", "ann"}    \* update.effective_user.username; "" for none
Chats     == {1}
Messages  == {1}

\* update.effective_user.username or "Игрок"
\* (the default name is written "Igrok" here)
UsernameOr(username) == IF username = "" THEN "Igrok" ELSE username

\* active_games[user_id] = {'score': 0, 'start_time': ..., 'message_id': ...}
NewGame(t, message_id) ==
    [score |-> 0, start_time |-> t, message_id |-> message_id]

\* job_queue.run_once(game_timer, GAME_DURATION, data = {...}): the job is
\* named after its callback; it is due GAME_DURATION seconds from now
NewJob(chat_id, user_id, t) ==
    [name |-> "game_timer", due |-> t + GAME_DURATION, pc |-> "scheduled",
     data |-> [chat_id |-> chat_id, user_id |-> user_id]]

\* job_queue.get_jobs_by_name(name)
get_jobs_by_name(name) ==
    {j \in DOMAIN jobs : jobs[j].pc = "scheduled" /\ jobs[j].name = name}

\* --- /start
Start(user_id, username) ==
    /\ IF user_id \notin DOMAIN user_scores
       THEN /\ user_scores' = Put(user_scores, user_id, 0)
            /\ leaderboard' = Put(leaderboard, user_id,
                                  [username |-> UsernameOr(username),
                                   best_score |-> 0])
       ELSE UNCHANGED <<user_scores, leaderboard>>
    /\ ret' = Returned("start", "", <<"reply_text">>)
    /\ UNCHANGED <<active_games, jobs, store, gameVars, now, webVars, hist>>

\* --- button_handler, query.data = 'start_game'
StartGame(user_id, chat_id, message_id) ==
    /\ IF user_id \in DOMAIN active_games
       THEN /\ ret' = Returned("start_game", "", <<"answer">>)
            /\ UNCHANGED <<active_games, jobs>>
       ELSE /\ active_games' = Put(active_games, user_id,
                                   NewGame(now, message_id))
            /\ jobs' = Put(jobs, NextId(jobs), NewJob(chat_id, user_id, now))
            /\ ret' = Returned("start_game", "", <<"edit_message_text">>)
    /\ UNCHANGED <<user_scores, leaderboard, store, gameVars, now, webVars,
                   hist>>

\* --- button_handler, query.data = 'tap'
Tap(user_id) ==
    /\ IF user_id \notin DOMAIN active_games
       THEN /\ ret' = Returned("tap", "", <<"answer">>)
            /\ UNCHANGED active_games
       ELSE /\ active_games' = [active_games EXCEPT ![user_id].score = @ + 1]
            /\ ret' = Returned("tap", "", <<"edit_message_text">>)
    /\ UNCHANGED <<user_scores, leaderboard, jobs, store, gameVars, now,
                   webVars, hist>>

\* --- button_handler, query.data = 'end_game'.  With a game active the jobs
\* named str(user_id) are removed, and the call of game_timer raises
\* AttributeError before game_timer runs a statement: the context of a
\* callback query has no attribute _context (and its job is None).
EndGame(user_id) ==
    /\ IF user_id \in DOMAIN active_games
       THEN /\ jobs' = Drop(jobs, get_jobs_by_name(str(PyInt(user_id))))
            /\ ret' = Returned("end_game", "AttributeError", <<>>)
       ELSE /\ ret' = Returned("end_game", "", <<"answer">>)
            /\ UNCHANGED jobs
    /\ UNCHANGED <<user_scores, active_games, leaderboard, store, gameVars,
                   now, webVars, hist>>

\* leaderboard[user_id]['best_score'] = score, if score is greater
BestScore(board, user_id, score) ==
    IF score > board[user_id].best_score
    THEN [board EXCEPT ![user_id].best_score = score]
    ELSE board

\* --- game_timer up to its await: the job queue runs the job once it is due.
\* A subscript of a dict with a missing key raises KeyError, and a job that
\* has run, or raised, is gone.
GameTimer(j) ==
    /\ j \in DOMAIN jobs
    /\ jobs[j].pc = "scheduled"
    /\ LET user_id == jobs[j].data.user_id
       IN  IF user_id \notin DOMAIN active_games
           THEN /\ jobs' = Drop(jobs, {j})
                /\ ret' = Returned("game_timer", "", <<>>)
                /\ UNCHANGED <<leaderboard, user_scores>>
           ELSE LET score == active_games[user_id].score
                IN  IF user_id \notin DOMAIN leaderboard
                    THEN /\ jobs' = Drop(jobs, {j})
                         /\ ret' = Returned("game_timer", "KeyError", <<>>)
                         /\ UNCHANGED <<leaderboard, user_scores>>
                    ELSE IF user_id \notin DOMAIN user_scores
                    THEN /\ leaderboard' = BestScore(leaderboard, user_id,
                                                     score)
                         /\ jobs' = Drop(jobs, {j})
                         /\ ret' = Returned("game_timer", "KeyError", <<>>)
                         /\ UNCHANGED user_scores
                    ELSE /\ leaderboard' = BestScore(leaderboard, user_id,
                                                     score)
                         /\ user_scores' = [user_scores EXCEPT
                                               ![user_id] = @ + score]
                         /\ jobs' = [jobs EXCEPT ![j].pc = "editing"]
                         /\ UNCHANGED ret
    /\ UNCHANGED <<active_games, store, gameVars, now, webVars, hist>>

\* --- game_timer after its await: del active_games[user_id]
GameTimerDelete(j) ==
    /\ j \in DOMAIN jobs
    /\ jobs[j].pc = "editing"
    /\ LET user_id == jobs[j].data.user_id
       IN  IF user_id \in DOMAIN active_games
           THEN /\ active_games' = Drop(active_games, {user_id})
                /\ hist' = [hist EXCEPT !.finished[user_id] =
                               Append(@, active_games[user_id].score)]
                /\ ret' = Returned("game_timer", "", <<>>)
           ELSE /\ ret' = Returned("game_timer", "KeyError", <<>>)
                /\ UNCHANGED <<active_games, hist>>
    /\ jobs' = Drop(jobs, {j})
    /\ UNCHANGED <<user_scores, leaderboard, store, gameVars, now, webVars>>

\* ------------------------------------------------------------ the bot's runs
MaxBotGames  == 2       \* games a user starts
MaxBotTaps   == 1       \* taps that count in one game
LiveBotGames == 1       \* the same, where every game is to end
LiveBotTaps  == 1

\* the ids the job queue can issue: one job for each game started
JobIds(maxGames) == 1 .. Cardinality(Users) * maxGames

\* the games a user has started
Started(user_id) ==
    Len(hist.finished[user_id])
       + (IF user_id \in DOMAIN active_games THEN 1 ELSE 0)

NextBotOf(maxGames, maxTaps) ==
    \/ \E u \in Users, n \in Usernames : Start(u, n)
    \/ \E u \in Users, c \in Chats, m \in Messages :
          /\ u \in DOMAIN active_games \/ Started(u) < maxGames
          /\ StartGame(u, c, m)
    \/ \E u \in Users :
          /\ u \in DOMAIN active_games => active_games[u].score < maxTaps
          /\ Tap(u)
    \/ \E u \in Users : EndGame(u)
    \/ \E j \in JobIds(maxGames) : GameTimer(j)
    \/ \E j \in JobIds(maxGames) : GameTimerDelete(j)

NextBot == NextBotOf(MaxBotGames, MaxBotTaps)

SpecBot == Init /\ [][NextBot]_vars

\* The job queue runs every job that is due, and an awaited call returns.
NextBotLive == NextBotOf(LiveBotGames, LiveBotTaps)

SpecBotLive ==
    /\ Init
    /\ [][NextBotLive]_vars
    /\ \A j \in JobIds(LiveBotGames) :
          WF_vars(GameTimer(j)) /\ WF_vars(GameTimerDelete(j))

\* ------------------------------------------------ constructions of the stores
MaxInits == 2           \* constructions of one class

InitStore ==
    /\ players = EmptyTable
    /\ game_sessions = EmptyTable
    /\ tap_history = EmptyTable
    /\ now = 0
    /\ lock = 0
    /\ gl = [t \in Threads |-> GIdle]
    /\ webapp_users = EmptyTable
    /\ achievements = EmptyTable
    /\ wl = [t \in Threads |-> WIdle]
    /\ ret = NoCall
    /\ hist = HistInit
    /\ store = [c \in Classes |-> StoreNew]
    /\ purchases = EmptyTable
    /\ user_scores = EmptyTable
    /\ active_games = EmptyTable
    /\ leaderboard = EmptyTable
    /\ jobs = EmptyTable

NextStore ==
    \/ \E c \in Classes, f \in Files :
          /\ store[c].local < MaxInits
          /\ Construct(c, f)
    \/ \E c \in Classes, t \in Threads : GetConnection(c, t)
    \/ \E c \in Classes, t \in Threads : FirstStatement(c, t)

SpecStore == InitStore /\ [][NextStore]_vars

\* ------------------------------------- first access to a player, both stores
NextPlayers ==
    \/ \E t \in Threads, u \in Users : GetPlayerSelect(t, u)
    \/ \E t \in Threads : GetPlayerInsert(t)
    \/ \E t \in Threads, u \in Users : GetOrCreateUserSelect(t, u)
    \/ \E t \in Threads : GetOrCreateUserInsert(t)
    \/ \E d \in {ShortTick} : hist.ticks < MaxTicks /\ Tick(d)

SpecPlayers == Init /\ [][NextPlayers]_vars

\* ==================================================================== claims
\* The completed gameEnd updates of user u, in the order of their commits
GameEndsOf(u) == SelectSeq(hist.log, LAMBDA e : e.user = u)

\* The four counters of a row are the defaults of a new player
HasDefaults(row) ==
    /\ row.total_taps = 0
    /\ row.best_score = 0
    /\ row.tap_power = 1
    /\ row.taps_per_minute = 0

\* C1: get_player (Database) and get_or_create_user (WebAppDatabase), called
\* with an id that has no row, return a row with total_taps 0, best_score 0,
\* tap_power 1 and taps_per_minute 0 and persist it; every further sequential
\* call returns the same values, and the table keeps exactly one row for the
\* id.  (A table maps the key to its row, so one row per id is the rule that
\* an INSERT of a key already present raises; calls that never overlap never
\* raise.)
C1_FirstAccessDefaults ==
    /\ (ret.op = "get_player" /\ ret.raised = "") =>
          LET d == ret.value[1]
          IN  /\ HasDefaults(d.row)
              /\ d.user_id \in DOMAIN players
              /\ players[d.user_id] = d.row
    /\ (ret.op = "get_or_create_user" /\ ret.raised = "") =>
          LET d == ret.value[1]
          IN  /\ HasDefaults(d.row)
              /\ d.telegram_id \in DOMAIN webapp_users
              /\ webapp_users[d.telegram_id] = d.row
    /\ (ret.op \in {"get_player", "get_or_create_user"} /\ ~hist.overlap) =>
          ret.raised = ""
    /\ \A u \in DOMAIN webapp_users, v \in DOMAIN webapp_users :
          webapp_users[u].id = webapp_users[v].id => u = v

\* C1 happens: both stores hold a row made by a first call, no two calls have
\* overlapped, and a further call has just returned the stored row
C1_RepeatedCall ==
    /\ ~hist.overlap
    /\ players # EmptyTable
    /\ ret.op = "get_or_create_user"
    /\ ret.raised = ""
    /\ ~ret.inserted
    /\ HasDefaults(ret.value[1].row)

\* C2: two gameEnd updates for one user, applied one after the other from no
\* prior activity with scores s1 and s2, leave total_taps = s1 + s2 and
\* best_score = max(s1, s2).
C2_SequentialGameEnds ==
    \A u \in Users :
        LET done == GameEndsOf(u)
        IN  (~hist.overlap /\ Len(done) = 2) =>
                /\ u \in DOMAIN webapp_users
                /\ webapp_users[u].total_taps = done[1].score + done[2].score
                /\ webapp_users[u].best_score =
                       Max(done[1].score, done[2].score)

\* C2 happens: two updates with different positive scores, never overlapping
C2_TwoGamesDone ==
    \E u \in Users :
        LET done == GameEndsOf(u)
        IN  /\ ~hist.overlap
            /\ Len(done) = 2
            /\ done[1].score > 0
            /\ done[2].score > done[1].score

\* C3: two gameEnd updates for one user that run concurrently can lose one:
\* the update that commits last stores the total it read at the start of its
\* handler plus its own score, whatever was committed in between, so the final
\* total_taps can be less than s1 + s2; it is never more, and it is less only
\* when the two handlers overlapped.
C3_LastWriterWins ==
    \A u \in Users :
        LET done == GameEndsOf(u)
        IN  Len(done) = 2 =>
                /\ webapp_users[u].total_taps =
                       done[2].read.total_taps + done[2].score
                /\ webapp_users[u].total_taps <= done[1].score + done[2].score
                /\ webapp_users[u].total_taps < done[1].score + done[2].score
                       => hist.overlap

\* C3 happens: both updates are committed, both scores are positive, and the
\* stored total is less than their sum
C3_LostUpdate ==
    \E u \in Users :
        LET done == GameEndsOf(u)
        IN  /\ Len(done) = 2
            /\ done[1].score > 0
            /\ done[2].score > 0
            /\ webapp_users[u].total_taps < done[1].score + done[2].score

\* C5: under any interleaving of gameEnd updates for one user, once a gameEnd
\* update carrying score s and rate r has committed, the stored best_score is
\* at least max(best_score stored before that write, s) and the stored
\* taps_per_minute at least max(taps_per_minute stored before that write, r):
\* the two fields are max-merged and never decrease.
C5_WebBestNeverDecreases ==
    [][\A t \in Threads :
          (/\ wl[t].pc = "write"
           /\ wl[t].op = "gameEnd"
           /\ wl'[t].pc # "write"
           /\ wl[t].telegram_id \in DOMAIN webapp_users) =>
              LET u == wl[t].telegram_id
              IN  /\ webapp_users'[u].best_score >=
                         Max(webapp_users[u].best_score,
                             GameEndScore(wl[t].payload))
                  /\ webapp_users'[u].taps_per_minute >=
                         Max(webapp_users[u].taps_per_minute,
                             GameEndRate(wl[t].payload))
      ]_vars

\* C4: players.best_score and players.taps_per_minute never decrease, under
\* any interleaving of start_game_session, record_tap, end_game_session and
\* get_player (and of the retention sweep).
C4_PlayerBestNeverDecreases ==
    [][\A u \in DOMAIN players :
          u \in DOMAIN players' =>
              /\ players'[u].best_score >= players[u].best_score
              /\ players'[u].taps_per_minute >= players[u].taps_per_minute
      ]_vars

\* C4 happens: an end_game_session has just committed for a player whose
\* best_score and taps_per_minute are both above what that call carried
C4_LowerEndCommitted ==
    /\ ret.op = "end_game_session"
    /\ ret.raised = ""
    /\ ret.value # <<>>
    /\ hist.ended \in DOMAIN players
    /\ players[hist.ended].best_score > ret.value[1].score
    /\ players[hist.ended].taps_per_minute > ret.value[1].taps_per_minute

\* C6 as stated: each successful end_game_session increases the player's
\* total_taps by exactly the session's score (the sum of tap_power over the
\* session's recorded taps), for every tap_power >= 1.
C6_EndAddsSessionScore ==
    [][\A t \in Threads :
          (/\ gl[t].pc = "end_write"
           /\ gl'[t].pc = "idle"
           /\ ret'.raised = ""
           /\ gl[t].user_id \in DOMAIN players) =>
              players'[gl[t].user_id].total_taps =
                  players[gl[t].user_id].total_taps + ret'.value[1].score
      ]_vars

\* C6 amended: each successful end_game_session increases the player's
\* total_taps by exactly the session's total_taps, the number of taps recorded
\* for the session when the call read it, whatever their tap_power; that is
\* the session's score only when every tap had tap_power 1.
C6_EndAddsSessionTaps ==
    [][\A t \in Threads :
          (/\ gl[t].pc = "end_write"
           /\ gl'[t].pc = "idle"
           /\ ret'.raised = ""
           /\ gl[t].user_id \in DOMAIN players) =>
              /\ ret'.value[1].total_taps = gl[t].total_taps
              /\ ret'.value[1].total_taps <= ret'.value[1].score
              /\ players'[gl[t].user_id].total_taps =
                     players[gl[t].user_id].total_taps + ret'.value[1].total_taps
      ]_vars

\* C6 happens: an end_game_session has committed for a session whose taps had
\* tap_power above 1, and the player holds the taps it added
C6_EndedWithPower ==
    /\ ret.op = "end_game_session"
    /\ ret.raised = ""
    /\ ret.value # <<>>
    /\ ret.value[1].total_taps >= 1
    /\ ret.value[1].score > ret.value[1].total_taps
    /\ hist.ended \in DOMAIN players
    /\ players[hist.ended].total_taps >= ret.value[1].total_taps

\* ------------------------------------------------- the leaderboard queries
MaxRanked == 3          \* rows in the table a leaderboard is read from
MaxStat   == 2          \* largest taps_per_minute / total_taps of such a row
MaxLimit  == 3          \* largest limit asked for

\* The (taps_per_minute, total_taps) a row can hold.  A players row gets its
\* rate from a session with at least one tap, whose taps end_game_session adds
\* in the same UPDATE, so a positive rate comes with positive total_taps; a
\* webapp_users row takes both numbers from the payload.
PlayerStats ==
    {s \in (0 .. MaxStat) \X (0 .. MaxStat) : s[1] > 0 => s[2] > 0}
UserStats == (0 .. MaxStat) \X (0 .. MaxStat)

\* The tables over the keys 1 .. MaxRanked whose rows hold `stats`
TablesOf(stats) ==
    UNION {[keys -> stats] : keys \in SUBSET (1 .. MaxRanked)}

StatsPlayer(k, s) ==
    [DefaultPlayer(0) EXCEPT !.taps_per_minute = s[1], !.total_taps = s[2]]
StatsUser(k, s) ==
    [DefaultUser(k, 0) EXCEPT !.taps_per_minute = s[1], !.total_taps = s[2]]

\* One of the two stores holds any such table, the other is new
InitLeaderboard ==
    /\ \/ /\ \E f \in TablesOf(PlayerStats) :
                players = [k \in DOMAIN f |-> StatsPlayer(k, f[k])]
          /\ webapp_users = EmptyTable
       \/ /\ players = EmptyTable
          /\ \E f \in TablesOf(UserStats) :
                webapp_users = [k \in DOMAIN f |-> StatsUser(k, f[k])]
    /\ game_sessions = EmptyTable
    /\ tap_history = EmptyTable
    /\ now = 0
    /\ lock = 0
    /\ gl = [t \in Threads |-> GIdle]
    /\ achievements = EmptyTable
    /\ wl = [t \in Threads |-> WIdle]
    /\ ret = NoCall
    /\ hist = HistInit
    /\ store = StoreBuilt
    /\ purchases = EmptyTable
    /\ user_scores = EmptyTable
    /\ active_games = EmptyTable
    /\ leaderboard = EmptyTable
    /\ jobs = EmptyTable

NextLeaderboard ==
    \/ \E t \in Threads, n \in 0 .. MaxLimit : GetLeaderboard(t, n)
    \/ \E t \in Threads, n \in 0 .. MaxLimit : WebGetLeaderboard(t, n)

SpecLeaderboard == InitLeaderboard /\ [][NextLeaderboard]_vars

\* C7: for every store state and every limit n >= 0, get_leaderboard(n) of
\* either store returns at most n entries, in non-increasing order of
\* taps_per_minute with ties in non-increasing order of total_taps, none of
\* them a player with taps_per_minute = 0 and total_taps = 0, and when n is at
\* least the number of active players, every player with taps_per_minute > 0
\* or total_taps > 0.  (Each entry is a row of the table, and no row comes
\* twice.)
C7_Leaderboard ==
    ret.op \in {"Database.get_leaderboard", "WebAppDatabase.get_leaderboard"} =>
        LET q == ret.value
            n == hist.limit
            game == ret.op = "Database.get_leaderboard"
            table == IF game THEN players ELSE webapp_users
            KeyOf(e) == IF game THEN e.user_id ELSE e.telegram_id
            active == {k \in DOMAIN table :
                          \/ table[k].taps_per_minute > 0
                          \/ table[k].total_taps > 0}
        IN  /\ Len(q) <= n
            /\ \A i, j \in 1 .. Len(q) :
                  i < j =>
                     /\ q[i].taps_per_minute >= q[j].taps_per_minute
                     /\ q[i].taps_per_minute = q[j].taps_per_minute
                           => q[i].total_taps >= q[j].total_taps
                     /\ KeyOf(q[i]) # KeyOf(q[j])
            /\ \A i \in 1 .. Len(q) :
                  /\ ~(q[i].taps_per_minute = 0 /\ q[i].total_taps = 0)
                  /\ KeyOf(q[i]) \in DOMAIN table
                  /\ q[i].taps_per_minute = table[KeyOf(q[i])].taps_per_minute
                  /\ q[i].total_taps = table[KeyOf(q[i])].total_taps
            /\ n >= Cardinality(active) =>
                  {KeyOf(q[i]) : i \in 1 .. Len(q)} = active

\* C7 happens: a leaderboard with room for every row has been returned from a
\* table of three rows, one of them without activity, the other two tied on
\* taps_per_minute and ranked by total_taps against the order of their keys
C7_RankedTwoOfThree ==
    /\ ret.op = "WebAppDatabase.get_leaderboard"
    /\ Len(ret.value) = 2
    /\ hist.limit = 3
    /\ Cardinality(DOMAIN webapp_users) = 3
    /\ ret.value[1].taps_per_minute = ret.value[2].taps_per_minute
    /\ ret.value[1].total_taps > ret.value[2].total_taps
    /\ ret.value[1].telegram_id > ret.value[2].telegram_id

\* ------------------------------------------------------ the retention sweep
\* A timestamp older than the retention window of `days` days
Stale(ts, days) == ts # NULL /\ ts < now - days * SecondsPerDay

\* C8: cleanup_old_records(days) removes every player row whose last_updated
\* is older than the retention window and whose total_taps = 0 and
\* taps_per_minute = 0, removes every game session older than the window, and
\* retains every stale player with total_taps > 0.
C8_CleanupRemovesStale ==
    [][\A t \in Threads, d \in CleanupDays :
          CleanupOldRecords(t, d) =>
              /\ \A u \in DOMAIN players :
                    Stale(players[u].last_updated, d) =>
                        IF players[u].total_taps = 0
                           /\ players[u].taps_per_minute = 0
                        THEN u \notin DOMAIN players'
                        ELSE u \in DOMAIN players'
              /\ \A s \in DOMAIN game_sessions :
                    Stale(game_sessions[s].start_time, d) =>
                        s \notin DOMAIN game_sessions'
      ]_vars

\* C9: no call of cleanup_old_records(days), for any days and any age of the
\* row, deletes a player row with total_taps > 0 or taps_per_minute > 0.
C9_CleanupKeepsActive ==
    [][\A t \in Threads, d \in CleanupDays :
          CleanupOldRecords(t, d) =>
              \A u \in DOMAIN players :
                  (players[u].total_taps > 0 \/ players[u].taps_per_minute > 0)
                      => /\ u \in DOMAIN players'
                         /\ players'[u] = players[u]
      ]_vars

\* C9 happens: a sweep has run over a player with recorded taps whose row is
\* older than the window
C9_StaleActiveSwept ==
    /\ ret.op = "cleanup_old_records"
    /\ \E u \in DOMAIN players :
          /\ players[u].total_taps > 0
          /\ Stale(players[u].last_updated, DefaultDays)

\* C10: cleanup_old_records is all-or-nothing: when the call raises, at either
\* DELETE, the transaction is rolled back and the rows of game_sessions,
\* tap_history and players are exactly what they were before the call.
C10_CleanupAllOrNothing ==
    [][\A t \in Threads, d \in CleanupDays :
          (CleanupOldRecords(t, d) /\ ret'.raised # "") =>
              /\ players' = players
              /\ game_sessions' = game_sessions
              /\ tap_history' = tap_history
      ]_vars

\* C10 happens: a sweep has raised over tables that hold a session older than
\* the window with a tap recorded in it
C10_SweepRaised ==
    /\ ret.op = "cleanup_old_records"
    /\ ret.raised = "ProgrammingError"
    /\ \E h \in DOMAIN tap_history :
          /\ tap_history[h].session_id \in DOMAIN game_sessions
          /\ Stale(game_sessions[tap_history[h].session_id].start_time,
                   DefaultDays)

\* A numeric field of the dict that int() refuses
NumericKeys == {"total_taps", "best_score", "tap_power", "taps_per_minute",
                "coins"}

Unconvertible(data) ==
    \E k \in NumericKeys \cap DOMAIN data : int(data[k]).raised # ""

\* C11: a call of update_user_data whose dict carries a numeric field that
\* does not convert raises and leaves the store as it was: no step of the
\* call creates or changes a webapp_users row, whether the telegram_id was
\* known or not.
C11_RaisingUpdateLeavesStore ==
    [][\A t \in Threads :
          (/\ wl[t].op = "update_user_data"
           /\ Unconvertible(wl[t].data)
           /\ wl'[t] # wl[t]) =>
              webapp_users' = webapp_users
      ]_vars

\* The key under which a payload carries a stored field: the gameEnd payload
\* names three of them in camel case, the other dicts use the column names
PayloadKey(op, field) ==
    IF op = "gameEnd"
    THEN CASE field = "tap_power" -> "tapPower"
           [] field = "taps_per_minute" -> "tapsPerMinute"
           [] field = "coins" -> "coinsEarned"
           [] OTHER -> field
    ELSE field

KeptFields == {"nickname", "avatar", "tap_power", "taps_per_minute", "coins"}

\* C12: every update (update_user_data called directly, gameEnd,
\* updateProfile), run with no other call in between, leaves each of nickname,
\* avatar, tap_power, taps_per_minute and coins at its stored value when the
\* incoming payload does not carry that field; a gameEnd payload without
\* tapPower leaves tap_power unchanged.
C12_AbsentFieldsKept ==
    [][\A t \in Threads :
          (/\ wl[t].pc = "write"
           /\ wl'[t].pc # "write"
           /\ ~hist.overlap) =>
              LET u == wl[t].telegram_id
              IN  \A f \in KeptFields :
                     PayloadKey(wl[t].op, f) \notin DOMAIN wl[t].payload =>
                        webapp_users'[u][f] = webapp_users[u][f]
      ]_vars

\* C13: in every reachable state of the web store, whatever get_or_create_user,
\* update_user_data (with any integers, negative ones included), gameEnd and
\* updateProfile did, every webapp_users row has total_taps >= 0,
\* best_score >= 0, taps_per_minute >= 0 and tap_power >= 1.
C13_CountersAboveFloors ==
    \A u \in DOMAIN webapp_users :
        /\ webapp_users[u].total_taps >= 0
        /\ webapp_users[u].best_score >= 0
        /\ webapp_users[u].taps_per_minute >= 0
        /\ webapp_users[u].tap_power >= 1

\* update_user_data has written a dict that carried a number under its floor
C13_WroteBelowFloor ==
    /\ hist.floored
    /\ ret.op = "update_user_data"
    /\ ret.raised = ""

\* C14: round trip of nickname and avatar, calls run one after another: once
\* an update has written a nickname or avatar, the row holds and the next
\* get_or_create_user returns exactly the text written (the text of the value,
\* when the caller handed in something that is not a str), and it stays so
\* across later gameEnd, updateProfile and update_user_data calls that do not
\* carry the field.
C14_TextRoundTrip ==
    [][~hist'.overlap =>
          \A u \in DOMAIN webapp_users' : \A k \in DOMAIN hist'.texts[u] :
             LET v == hist'.texts[u][k]
             IN  /\ webapp_users'[u][k] = str(v)
                 /\ v[1] = "str" => PyStr(webapp_users'[u][k]) = v
                 /\ \A t \in Threads :
                       GetOrCreateUserSelect(t, u) =>
                          ret'.value[1].row[k] = webapp_users'[u][k]
      ]_vars

\* a nickname written by one update, kept by a later update that did not
\* carry it, and returned by get_or_create_user after both
C14_ReturnedAfterLaterUpdate ==
    /\ ~hist.overlap
    /\ hist.ops = 2
    /\ ret.op = "get_or_create_user"
    /\ ret.raised = ""
    /\ \E u \in DOMAIN webapp_users :
          /\ ret.value[1].telegram_id = u
          /\ "nickname" \in DOMAIN hist.texts[u]
          /\ ret.value[1].row.nickname = "Bob"
          /\ ret.value[1].row.total_taps = 10

\* The tap_history rows of a session, and the sum of their tap_power
TapsOf(session_id) ==
    {i \in DOMAIN tap_history : tap_history[i].session_id = session_id}

RECURSIVE SumPower(_)
SumPower(ids) ==
    IF ids = {} THEN 0
    ELSE LET i == CHOOSE x \in ids : TRUE
         IN  tap_history[i].tap_power + SumPower(ids \ {i})

\* C15: record_tap is atomic.  After any sequence of record_tap calls, every
\* game session has total_taps equal to the number of its tap_history rows and
\* score equal to the sum of their tap_power, and a record_tap that raises
\* (unknown user_id or session_id, database locked) leaves tap_history,
\* players and game_sessions unchanged.
C15_RecordTapAtomic ==
    [][/\ \A s \in DOMAIN game_sessions :
             /\ game_sessions[s].total_taps = Cardinality(TapsOf(s))
             /\ game_sessions[s].score = SumPower(TapsOf(s))
       /\ \A t \in Threads, u \in Users, s \in 1 .. TapsMaxSessions + 1,
             p \in TapPowers :
             (RecordTap(t, u, s, p) /\ ret'.raised # "") =>
                UNCHANGED <<tap_history, players, game_sessions>>
      ]_vars

\* a record_tap raised after a tap of power 2 had been recorded
C15_RaisedAfterTap ==
    /\ ret.op = "record_tap"
    /\ ret.raised = "IntegrityError"
    /\ \E s \in DOMAIN game_sessions :
          /\ game_sessions[s].total_taps = 1
          /\ game_sessions[s].score = 2

\* ---------------------------------------------------- referential integrity
\* Every session belongs to a player, every tap to a player and a session
Integrity(db) ==
    /\ \A s \in DOMAIN db.game_sessions :
          db.game_sessions[s].user_id \in DOMAIN db.players
    /\ \A h \in DOMAIN db.tap_history :
          /\ db.tap_history[h].user_id \in DOMAIN db.players
          /\ db.tap_history[h].session_id \in DOMAIN db.game_sessions

\* The rows that refer to player u
RowsOf(db, u) ==
    [sessions |-> {s \in DOMAIN db.game_sessions :
                      db.game_sessions[s].user_id = u},
     taps     |-> {h \in DOMAIN db.tap_history : db.tap_history[h].user_id = u}]

\* C16: referential integrity holds in every reachable state of the game
\* database: every game_sessions row refers to an existing players row, every
\* tap_history row to an existing players row and an existing game_sessions
\* row; and the one statement that removes players rows, the DELETE of the
\* retention sweep, run on that state with either retention window, removes
\* the sessions and taps of each player it removes in the same step.
C16_ReferentialIntegrity ==
    /\ Integrity(GameDb)
    /\ \A days \in CleanupDays :
          LET after == DeleteInactivePlayers(GameDb, now - days * SecondsPerDay)
          IN  /\ Integrity(after)
              /\ \A u \in DOMAIN players \ DOMAIN after.players :
                    /\ RowsOf(after, u).sessions = {}
                    /\ RowsOf(after, u).taps = {}

\* a player the DELETE of the sweep would remove owns a session and a tap
C16_StalePlayerOwnsRows ==
    \E u \in DOMAIN players :
        /\ Stale(players[u].last_updated, DefaultDays)
        /\ players[u].total_taps = 0
        /\ players[u].taps_per_minute = 0
        /\ RowsOf(GameDb, u).sessions # {}
        /\ RowsOf(GameDb, u).taps # {}

\* ------------------------------------------------ construction, connections
\* C17: get_connection returns a connection bound to the calling thread: over
\* any sequence of constructions of a store and get_connection calls, two
\* calls from the same thread have returned the same connection object, and
\* calls from different threads have never returned the same object.
C17_ConnectionPerThread ==
    \A a, b \in hist.connections :
        a.cls = b.cls =>
            /\ a.thread = b.thread => a.id = b.id
            /\ a.thread # b.thread => a.id # b.id

\* C18: the schema is ensured at every construction: after any sequence
\* Database(f1), Database(f2), ... (WebAppDatabase likewise), the file that
\* later operations open, the current db_file, is one on which init_db has
\* run.
C18_SchemaEnsured ==
    \A c \in Classes :
        store[c].instance => store[c].db_file \in store[c].schema

\* C19: under any interleaving of get_player calls, or of get_or_create_user
\* calls, made by different threads for one id that has no row, every call
\* returns a record (none fails), and the table is left with exactly one row
\* for the id.
C19_ConcurrentFirstAccess ==
    ret.op \in {"get_player", "get_or_create_user"} =>
        /\ ret.raised = ""
        /\ ret.op = "get_player" =>
              ret.value[1].user_id \in DOMAIN players
        /\ ret.op = "get_or_create_user" =>
              ret.value[1].telegram_id \in DOMAIN webapp_users

\* ------------------------------------------------------------ achievements
\* C20: completing an achievement is idempotent: recording one (user, type)
\* returns true the first time and false afterwards, and later attempts add
\* no row, so the achievements of a user hold each type at most once.
C20_AchievementOnce ==
    /\ \A a, b \in DOMAIN achievements :
          (/\ achievements[a].user_id = achievements[b].user_id
           /\ achievements[a].achievement_type =
                 achievements[b].achievement_type) => a = b
    /\ (ret.op = "record_achievement" /\ ret.raised = "") =>
          ret.value \in {<<"True">>, <<"False">>}

\* ------------------------------------------------------ sessions and players
\* C21: ending a session is idempotent for the lifetime counter: the taps of
\* one game session are added to a player's total_taps at most once, so an
\* end_game_session for a session_id that has been ended before leaves every
\* player's total_taps as it is.
C21_EndAddsTapsOnce ==
    [][\A t \in Threads :
          (/\ EndGameSessionWrite(t)
           /\ gl[t].session_id \in DOMAIN game_sessions
           /\ game_sessions[gl[t].session_id].end_time # NULL) =>
              \A u \in DOMAIN players :
                 players'[u].total_taps = players[u].total_taps
      ]_vars

\* The game sessions of player u whose end_time is unset
OpenSessions(u) ==
    {s \in DOMAIN game_sessions :
        game_sessions[s].user_id = u /\ game_sessions[s].end_time = NULL}

\* C22: in every reachable state of the game database a player's game_state
\* is 'playing' exactly when the player has at least one game session whose
\* end_time is unset, and 'idle' otherwise.
C22_PlayingIffOpenSession ==
    \A u \in DOMAIN players :
        /\ players[u].game_state \in {"playing", "idle"}
        /\ players[u].game_state = "playing" <=> OpenSessions(u) # {}

\* The game session of player u started last (ids grow with every INSERT)
LastSession(u) ==
    CHOOSE s \in DOMAIN game_sessions :
        /\ game_sessions[s].user_id = u
        /\ \A x \in DOMAIN game_sessions :
              game_sessions[x].user_id = u => x <= s

\* C23: in every reachable state where a player's game_state is 'playing',
\* players.current_score equals the score of that player's most recently
\* started game session; and record_tap on a session that has already ended
\* or that belongs to another player changes no player's current_score.
C23_CurrentScoreOfLastSession ==
    [][/\ \A u \in DOMAIN players' :
             (/\ players'[u].game_state = "playing"
              /\ \E s \in DOMAIN game_sessions' :
                    game_sessions'[s].user_id = u) =>
                players'[u].current_score = game_sessions'[LastSession(u)']. score
       /\ \A t \in Threads, u \in Users, s \in DOMAIN game_sessions,
             p \in TapPowers :
             (/\ RecordTap(t, u, s, p)
              /\ \/ game_sessions[s].end_time # NULL
                 \/ game_sessions[s].user_id # u) =>
                \A v \in DOMAIN players :
                   players'[v].current_score = players[v].current_score
      ]_vars

\* The columns of a players row that start_game_session does not name
KeptColumns(row) ==
    [nickname |-> row.nickname, avatar |-> row.avatar,
     total_taps |-> row.total_taps, best_score |-> row.best_score,
     tap_power |-> row.tap_power, taps_per_minute |-> row.taps_per_minute]

\* C24: start_game_session(user_id) for a player that exists changes only
\* game_state, current_score, session_start_time and last_updated of the
\* player: nickname, avatar, total_taps, best_score, tap_power and
\* taps_per_minute, every existing game_sessions row and every tap_history row
\* are unchanged.
C24_StartKeepsPlayer ==
    [][\A t \in Threads, u \in DOMAIN players :
          StartGameSession(t, u) =>
              /\ KeptColumns(players'[u]) = KeptColumns(players[u])
              /\ \A s \in DOMAIN game_sessions :
                    /\ s \in DOMAIN game_sessions'
                    /\ game_sessions'[s] = game_sessions[s]
              /\ tap_history' = tap_history
      ]_vars

\* a player who has finished a game with taps has started another one
C24_StartedAgain ==
    /\ ret.op = "start_game_session"
    /\ ret.raised = ""
    /\ \E u \in DOMAIN players :
          /\ players[u].game_state = "playing"
          /\ players[u].total_taps > 0
          /\ players[u].best_score > 0
          /\ players[u].session_start_time = game_sessions[ret.value[1]].start_time
          /\ game_sessions[ret.value[1]].user_id = u
    /\ tap_history # EmptyTable

\* C25: under any interleaving of record_purchase calls (cost >= 0) and
\* update_user_data calls for one user, no balance becomes negative, and every
\* purchase recorded is paid from the balance held when it is recorded.
C25_CoinsNeverNegative ==
    [][/\ \A k \in DOMAIN webapp_users' : webapp_users'[k].coins >= 0
       /\ \A t \in Threads :
             RecordPurchaseWrite(t) =>
                \A k \in WithId(webapp_users, wl[t].payload.user_id) :
                   wl[t].payload.cost <= webapp_users[k].coins ]_vars


\* C26: record_purchase run with no other call in progress returns True
\* exactly when a row with this id exists and holds at least cost coins; then
\* exactly one purchases row is added and that balance falls by exactly cost.
\* When it returns False no row is added and no balance changes.
C26_PurchaseAlone ==
    [][~hist'.overlap =>
        /\ hist'.bought # hist.bought =>
              LET id == hist'.asked[1]
                  c  == hist'.asked[2]
                  enough == \E k \in DOMAIN webapp_users :
                               /\ webapp_users[k].id = id
                               /\ webapp_users[k].coins >= c
              IN  /\ purchases' = purchases
                  /\ webapp_users' = webapp_users
                  /\ enough <=> \E t \in Threads : wl'[t].pc = "purchase"
                  /\ ~enough <=> \A t \in Threads : wl'[t].pc = "idle"
                  /\ ~enough => /\ ret'.op = "record_purchase"
                                /\ ret'.raised = ""
                                /\ ret'.value = <<"False">>
        /\ \A t \in Threads :
              wl[t].pc = "purchase" /\ wl'[t].pc = "idle" =>
                 LET id == hist.asked[1]
                     c  == hist.asked[2]
                 IN  /\ ret'.op = "record_purchase"
                     /\ ret'.raised = ""
                     /\ ret'.value = <<"True">>
                     /\ \E p \in DOMAIN purchases' \ DOMAIN purchases :
                           /\ DOMAIN purchases' = DOMAIN purchases \cup {p}
                           /\ purchases'[p].user_id = id
                           /\ purchases'[p].cost = c
                     /\ \A p \in DOMAIN purchases : purchases'[p] = purchases[p]
                     /\ \E k \in DOMAIN webapp_users :
                           /\ webapp_users[k].id = id
                           /\ webapp_users[k].coins >= c
                     /\ DOMAIN webapp_users' = DOMAIN webapp_users
                     /\ \A k \in DOMAIN webapp_users :
                           webapp_users'[k].coins =
                              IF webapp_users[k].id = id
                              THEN webapp_users[k].coins - c
                              ELSE webapp_users[k].coins ]_vars

\* one call has returned False and a later one True, with nothing in between
\* overlapping: one purchase is recorded and its cost has left the balance
C26_BoughtAfterRefusal ==
    /\ ~hist.overlap
    /\ hist.bought = 2
    /\ ret.op = "record_purchase"
    /\ ret.value = <<"True">>
    /\ \E p \in DOMAIN purchases, k \in DOMAIN webapp_users :
          /\ DOMAIN purchases = {p}
          /\ purchases[p].user_id = webapp_users[k].id
          /\ purchases[p].cost = MaxCost
          /\ webapp_users[k].coins = 0

\* C27: every game that enters active_games is eventually removed from it,
\* for every user who can press start_game, a user without an entry in
\* leaderboard and user_scores included.
C27_GameEventuallyRemoved ==
    \A u \in Users :
        (u \in DOMAIN active_games) ~> (u \notin DOMAIN active_games)

\* the sum and the largest of a sequence of scores (0 for none)
RECURSIVE SumOf(_)
SumOf(scores) ==
    IF scores = <<>> THEN 0 ELSE Head(scores) + SumOf(Tail(scores))

RECURSIVE MaxOf(_)
MaxOf(scores) ==
    IF scores = <<>> THEN 0 ELSE Max(Head(scores), MaxOf(Tail(scores)))

\* the users for whom a game_timer is at its await
Finalizing == {jobs[j].data.user_id : j \in {i \in DOMAIN jobs :
                                               jobs[i].pc = "editing"}}

\* C28: start_game leaves an active game as it is, a tap changes a score only
\* of an active game, and each game's score is added exactly once: whenever no
\* game_timer of a user is under way, user_scores[u] is the sum and
\* leaderboard[u].best_score the largest of the scores of u's finished games.
C28_ScoresOfFinishedGames ==
    [][/\ \A u \in DOMAIN active_games :
             \A c \in Chats, m \in Messages : StartGame(u, c, m)
                => active_games' = active_games
       /\ \A u \in Users \ DOMAIN active_games :
             Tap(u) => active_games' = active_games
       /\ \A u \in DOMAIN user_scores' \ Finalizing' :
             /\ user_scores'[u] = SumOf(hist'.finished[u])
             /\ leaderboard'[u].best_score = MaxOf(hist'.finished[u])
      ]_vars

\* what holds of the same events: an active game is never reset and a tap
\* without a game changes nothing
C28_NoResetNoStrayTap ==
    [][/\ \A u \in DOMAIN active_games :
             \A c \in Chats, m \in Messages : StartGame(u, c, m)
                => active_games' = active_games
       /\ \A u \in Users \ DOMAIN active_games :
             Tap(u) => active_games' = active_games
       /\ \A u \in DOMAIN active_games :
             u \in DOMAIN active_games' =>
                active_games'[u].score >= active_games[u].score
      ]_vars

====
